---------------------------- MODULE Spec2Model ----------------------------
(***************************************************************************)
(* ClauseGrid: evidence retrieval, extraction/verification loop,           *)
(* confidence fusion and PDF anchor plausibility gate.                     *)
(*                                                                         *)
(* Each component is modelled under its own specification:                 *)
(*   Spec / FairSpec  the extraction run: cells, retry, cancellation       *)
(*   SpecFuser        confidence_from_signals (pure function)              *)
(*   SpecArea         normalizeBbox / hasPlausibleArea (pure functions)    *)
(*   SpecGate         PdfCitationViewer's anchor plausibility gate         *)
(*   SpecCell         one cell of _extract_field_cell                      *)
(*   SpecCache        the block embedding cache                            *)
(*   SpecResolver     the citation resolver of common.ts                   *)
(*   SpecSegments     the segment assembler                                *)
(*   SpecRanker       the candidate ranker                                 *)
(*   SpecGrid         the review table of App.tsx                          *)
(*   SpecReview       review decisions and the effective value             *)
(*   SpecPoll / FairSpecPoll    polling of the pending tasks               *)
(*   SpecRenderer     render requests of the PDF citation viewer           *)
(*   SpecRetry / FairSpecRetry  withRetry                                  *)
(* The backend sources (legal_service.py, legal_hybrid.py) are known only  *)
(* through the excerpts and behaviour notes of src/docs and                *)
(* src/backend/README.md.                                                  *)
(***************************************************************************)
EXTENDS Integers, Sequences, FiniteSets, TLC

VARIABLES
    \* ---- extraction run ----
    mode,             \* extraction mode of the run: "hybrid" | "llm_reasoning"
    runStatus,        \* QUEUED | RUNNING | COMPLETED | PARTIAL | FAILED | CANCELED
    cancelRequested,  \* the run-level cancellation flag
    cellState,        \* cell -> state of the per-cell machine
    inflight,         \* cell -> external call awaiting its response
    verifier,         \* cell -> verifier_status of the latest verify call
    retries,          \* cell -> number of verifier-triggered retries started
    persisted,        \* cell -> persisted field_extractions row, or NoRow
    notAttempted,     \* cell -> marked "not attempted" by a cancelled run
    discarded,        \* cell -> a response that arrived after the run was cancelled was dropped
    extractorResponse,\* cell -> class of the last extractor response the cell received
    hardFailure,      \* the worker died of an exception outside any cell's recovery
    \* ---- confidence fuser ----
    fuseIn,           \* inputs of confidence_from_signals
    fuseOut,          \* its result (1e-4 units), or -1 before the call
    \* ---- hasPlausibleArea ----
    areaIn,           \* arguments of hasPlausibleArea
    areaOut,          \* "plausible" | "implausible", or "pending" before the call
    \* ---- PDF citation viewer ----
    renderedPage,     \* /render-pdf-page response held in state, or NoPage
    loading,          \* a /render-pdf-page request is under way
    citationBbox,     \* primaryCitation.bbox, or NoBbox
    pageMeta,         \* pageIndex[page], or NoMeta
    imageDisplaySize, \* measured <img> size
    overlayDrawn,     \* the highlight <div> is in the rendered tree
    noBoxMessage,     \* text of the "no bbox" note, or "none"
    lastEvent,        \* last runtime event logged by the scroll effect
    \* ---- one cell of _extract_field_cell, step by step ----
    cell,             \* locals of the call: pool, primary, verdict, position
    \* ---- embedding cache ----
    document_block_embeddings, \* rows of the table, one document version and model
    embeddingServiceUp,        \* the embedding service answers during this run
    embedCall,        \* cell -> locals of its _get_or_create_block_embeddings call
    \* ---- citation resolver ----
    resolveIn,        \* arguments of resolvePrimaryCitation: document blocks, cell
                      \* (and the field of the cell, which the resolver is not given)
    resolveOut,       \* its result, or Unresolved before the call
    \* ---- segment assembler ----
    rse,              \* locals of one assemble_relevant_segments call
    \* ---- candidate ranker ----
    rank,             \* locals of one retrieve_legal_candidates call
    \* ---- review table (App.tsx) ----
    gridCell,         \* one table cell: its ai_result and what is rendered for it
    review,           \* one cell's field_extractions row and review_decisions row
    \* ---- pending-task polling (App.tsx) ----
    poll,             \* pending list, server task statuses, the polling pass
    \* ---- withRetry (App.tsx) ----
    retryCall,        \* attempts made by one withRetry call and its outcome
    \* ---- render requests of the PDF citation viewer ----
    viewer            \* renderTokenRef, the debounce timer, requests in flight, state

runVars == <<mode, runStatus, cancelRequested, cellState, inflight, verifier,
             retries, persisted, notAttempted, discarded, extractorResponse,
             hardFailure>>
fuseVars == <<fuseIn, fuseOut>>
gateVars == <<renderedPage, loading, citationBbox, pageMeta, imageDisplaySize,
              overlayDrawn, noBoxMessage, lastEvent>>
areaVars == <<areaIn, areaOut>>
cellVars == <<cell>>
cacheVars == <<document_block_embeddings, embeddingServiceUp, embedCall>>
citeVars == <<resolveIn, resolveOut>>
segVars == <<rse>>
rankVars == <<rank>>
gridVars == <<gridCell>>
reviewVars == <<review>>
pollVars == <<poll>>
retryVars == <<retryCall>>
viewerVars == <<viewer>>
callVars == <<retryVars, viewerVars>>
frontVars == <<gridVars, reviewVars, pollVars, callVars>>
backVars == <<segVars, rankVars>>
extVars == <<cellVars, cacheVars, citeVars, backVars, frontVars>>
oldVars == <<runVars, fuseVars, areaVars, gateVars, cellVars, cacheVars, citeVars>>
vars == <<runVars, fuseVars, areaVars, gateVars, extVars>>

-----------------------------------------------------------------------------
(* Bounds *)
NumCells == 2
PoolSize == 2

Cells == 1..NumCells


-----------------------------------------------------------------------------
(***************************************************************************)
(* Extraction run: one cell per (document_version, field).                 *)
(***************************************************************************)
Modes == {"hybrid", "llm_reasoning"}

NonTerminalStates ==
    {"PENDING", "EXTRACTED", "VERIFIED", "RETRYING", "RE_EXTRACTED", "RE_VERIFIED"}
FallbackReasons == {"NOT_FOUND", "AMBIGUOUS", "PARSER_ERROR", "MODEL_ERROR"}
\* DETERMINISTIC: the row written by hybrid mode's deterministic fallback
\* (keyword-driven extraction, no LLM, verifier_status SKIPPED).
TerminalStates == {"ACCEPTED", "DETERMINISTIC"} \cup FallbackReasons
CellStates == NonTerminalStates \cup TerminalStates

VerifierStatuses == {"PASS", "PARTIAL", "FAIL"}
RunStatuses == {"QUEUED", "RUNNING", "COMPLETED", "PARTIAL", "FAILED", "CANCELED"}

\* uncertainty_reason of a result row: the operator-facing detail written
\* for a fallback record or a verdict short of PASS, empty otherwise.
UncertaintyReason(outcome, vs) ==
    IF outcome \in FallbackReasons THEN "fallback_detail"
    ELSE IF vs \in {"PARTIAL", "FAIL"} THEN "verifier_reason"
    ELSE "empty"

NoRow == [outcome |-> "none", verifier_status |-> "none", uncertainty_reason |-> "none"]
Row(outcome, vs) ==
    [outcome |-> outcome, verifier_status |-> vs,
     uncertainty_reason |-> UncertaintyReason(outcome, vs)]

\* Keys the extraction prompt demands and extract() reads from the payload.
RequiredKeys == {"value", "raw_text", "evidence_summary", "candidate_index", "confidence"}

\* What an extractor call can come back with: a parsed payload holding some
\* of the keys, text that is not JSON, or no answer in time.
ExtractorResponses ==
    [kind : {"json"}, keys : SUBSET RequiredKeys]
        \cup {[kind |-> "unparseable", keys |-> {}], [kind |-> "timeout", keys |-> {}]}

\* What the response was, told from the response alone.
ResponseClass(resp) ==
    IF resp.kind # "json" THEN resp.kind
    ELSE IF \E k \in RequiredKeys : k \notin resp.keys THEN "missing_key"
    ELSE "complete"

ExtractorOkAnyJson(resp) == resp.kind = "json"

\* extract() builds its result from payload["value"], payload["raw_text"], ...:
\* it succeeds only for a parsed payload holding every required key.
ExtractorOk(resp) == resp.kind = "json" /\ RequiredKeys \subseteq resp.keys

\* What a verifier call can come back with.
VerifierResponses == VerifierStatuses \cup {"invalid", "timeout"}
VerifierOk(resp) == resp \in VerifierStatuses

IsTerminal(c) == cellState[c] \in TerminalStates
AllTerminal == \A c \in Cells : IsTerminal(c)

\* A cell a worker has picked up and not yet finished.
Started(c) ==
    /\ cellState[c] \in NonTerminalStates
    /\ ~(cellState[c] = "PENDING" /\ inflight[c] = "none")
ActiveWorkers == Cardinality({c \in Cells : Started(c)})

InitRun ==
    /\ mode \in Modes
    /\ runStatus = "QUEUED"
    /\ cancelRequested = FALSE
    /\ cellState = [c \in Cells |-> "PENDING"]
    /\ inflight = [c \in Cells |-> "none"]
    /\ verifier = [c \in Cells |-> "none"]
    /\ retries = [c \in Cells |-> 0]
    /\ persisted = [c \in Cells |-> NoRow]
    /\ notAttempted = [c \in Cells |-> FALSE]
    /\ discarded = [c \in Cells |-> FALSE]
    /\ extractorResponse = [c \in Cells |-> "none"]
    /\ hardFailure = FALSE

\* QUEUED -> RUNNING: extraction worker starts.
StartRun ==
    /\ runStatus = "QUEUED"
    /\ ~cancelRequested
    /\ runStatus' = "RUNNING"
    /\ UNCHANGED <<mode, hardFailure, cancelRequested, cellState, inflight, verifier, retries,
                   persisted, notAttempted, discarded, extractorResponse>>
    /\ UNCHANGED <<fuseVars, areaVars, gateVars, extVars>>

\* POST /api/tasks/{task_id}/cancel: raises the run's cancellation flag.
RequestCancel ==
    /\ runStatus \in {"QUEUED", "RUNNING"}
    /\ ~cancelRequested
    /\ cancelRequested' = TRUE
    /\ UNCHANGED <<mode, hardFailure, runStatus, cellState, inflight, verifier, retries,
                   persisted, notAttempted, discarded, extractorResponse>>
    /\ UNCHANGED <<fuseVars, areaVars, gateVars, extVars>>

\* A terminal outcome is written as the cell's one result row.
Finish(c, outcome, vs) ==
    /\ cellState' = [cellState EXCEPT ![c] = outcome]
    /\ persisted' = [persisted EXCEPT ![c] = Row(outcome, vs)]
    /\ inflight' = [inflight EXCEPT ![c] = "none"]

\* The LLM path of a cell failed (malformed response, timeout, error).
\* llm_reasoning mode returns the MODEL_ERROR fallback payload; hybrid mode
\* falls back to deterministic extraction, which finds a value or does not.
LLMFailureAlwaysModelError(c) == Finish(c, "MODEL_ERROR", "SKIPPED")

LLMFailure(c) ==
    IF mode = "llm_reasoning"
    THEN Finish(c, "MODEL_ERROR", "SKIPPED")
    ELSE \E det \in {"DETERMINISTIC", "NOT_FOUND"} : Finish(c, det, "SKIPPED")

\* Between cells: the flag is polled, and with the flag clear the cell is
\* ranked and assembled (synchronous) and the extractor call is issued.
Dispatch(c) ==
    /\ runStatus = "RUNNING"
    /\ ~cancelRequested
    /\ cellState[c] = "PENDING" /\ inflight[c] = "none"
    /\ ActiveWorkers < PoolSize
    /\ \E found \in {"candidates", "PARSER_ERROR", "NOT_FOUND", "AMBIGUOUS"} :
          IF found = "candidates"
          THEN /\ inflight' = [inflight EXCEPT ![c] = "extractor"]
               /\ UNCHANGED <<cellState, persisted>>
          ELSE Finish(c, found, "SKIPPED")
    /\ UNCHANGED <<mode, hardFailure, runStatus, cancelRequested, verifier, retries,
                   notAttempted, discarded, extractorResponse>>
    /\ UNCHANGED <<fuseVars, areaVars, gateVars, extVars>>

\* The extractor call of a cell returns while the run is live.
ExtractorReturns(c) ==
    /\ runStatus = "RUNNING"
    /\ inflight[c] = "extractor"
    /\ \E resp \in ExtractorResponses :
          /\ extractorResponse' = [extractorResponse EXCEPT ![c] = ResponseClass(resp)]
          /\ IF ExtractorOk(resp)
             THEN /\ cellState' = [cellState EXCEPT ![c] =
                         IF cellState[c] = "PENDING" THEN "EXTRACTED" ELSE "RE_EXTRACTED"]
                  /\ inflight' = [inflight EXCEPT ![c] = "verifier"]
                  /\ UNCHANGED persisted
             ELSE LLMFailure(c)
    /\ UNCHANGED <<mode, hardFailure, runStatus, cancelRequested, verifier, retries,
                   notAttempted, discarded>>
    /\ UNCHANGED <<fuseVars, areaVars, gateVars, extVars>>

\* The verifier call of a cell returns while the run is live.
VerifierReturns(c) ==
    /\ runStatus = "RUNNING"
    /\ inflight[c] = "verifier"
    /\ \E resp \in VerifierResponses :
          IF VerifierOk(resp)
          THEN /\ cellState' = [cellState EXCEPT ![c] =
                      IF cellState[c] = "EXTRACTED" THEN "VERIFIED" ELSE "RE_VERIFIED"]
               /\ verifier' = [verifier EXCEPT ![c] = resp]
               /\ inflight' = [inflight EXCEPT ![c] = "none"]
               /\ UNCHANGED persisted
          ELSE LLMFailure(c) /\ UNCHANGED verifier
    /\ UNCHANGED <<mode, hardFailure, runStatus, cancelRequested, retries, notAttempted, discarded, extractorResponse>>
    /\ UNCHANGED <<fuseVars, areaVars, gateVars, extVars>>

\* if verifier.get("verifier_status") == "FAIL": one expanded re-rank,
\* re-assembly and re-extraction.  The flag is polled before re-ranking.
RetryGuardLoop(c) == cellState[c] \in {"VERIFIED", "RE_VERIFIED"} /\ verifier[c] = "FAIL"

RetryGuard(c) == cellState[c] = "VERIFIED" /\ verifier[c] = "FAIL"

RetryBoundaryUnchecked == TRUE

\* The poll on the FAIL -> retry boundary found the flag clear.
RetryBoundaryClear == ~cancelRequested

RetryOnFail(c) ==
    /\ runStatus = "RUNNING"
    /\ RetryGuard(c)
    /\ RetryBoundaryClear
    /\ cellState' = [cellState EXCEPT ![c] = "RETRYING"]
    /\ retries' = [retries EXCEPT ![c] = @ + 1]
    /\ inflight' = [inflight EXCEPT ![c] = "extractor"]
    /\ UNCHANGED <<mode, hardFailure, runStatus, cancelRequested, verifier, persisted,
                   notAttempted, discarded, extractorResponse>>
    /\ UNCHANGED <<fuseVars, areaVars, gateVars, extVars>>

\* Post-processing and persistence of a verified cell.  A first-pass FAIL is
\* left to RetryOnFail; a verified retry is persisted whatever its status.
\* A PARTIAL verdict whose reason reports conflicting evidence is recorded
\* as AMBIGUOUS.
AcceptGuardUnverified(c) ==
    \/ cellState[c] \in {"EXTRACTED", "VERIFIED"} /\ verifier[c] # "FAIL"
    \/ cellState[c] = "RE_VERIFIED"

AcceptGuard(c) ==
    \/ cellState[c] = "VERIFIED" /\ verifier[c] \in {"PASS", "PARTIAL"}
    \/ cellState[c] = "RE_VERIFIED"

PersistedVerdictFirstPass(c) ==
    IF cellState[c] = "RE_VERIFIED" THEN "FAIL" ELSE verifier[c]

\* verifier = self.llm_client.verify(...) in the retry branch rebinds the
\* verdict: what is persisted is the verdict of the latest pass.
PersistedVerdict(c) == verifier[c]

Accept(c) ==
    /\ runStatus = "RUNNING"
    /\ AcceptGuard(c)
    /\ \E conflicting \in BOOLEAN :
          IF conflicting /\ PersistedVerdict(c) = "PARTIAL"
          THEN Finish(c, "AMBIGUOUS", PersistedVerdict(c))
          ELSE Finish(c, "ACCEPTED", PersistedVerdict(c))
    /\ UNCHANGED <<mode, hardFailure, runStatus, cancelRequested, verifier, retries,
                   notAttempted, discarded, extractorResponse>>
    /\ UNCHANGED <<fuseVars, areaVars, gateVars, extVars>>

CancelRunClearingRows ==
    /\ runStatus' = "CANCELED"
    /\ notAttempted' = [c \in Cells |-> TRUE]
    /\ persisted' = [c \in Cells |-> NoRow]
    /\ UNCHANGED <<mode, hardFailure, cancelRequested, cellState, inflight, verifier, retries,
                   discarded, extractorResponse>>

\* A poll point that finds the flag set ends the run as CANCELED: rows already
\* written stay, every cell that is not terminal is marked not attempted.
CancelRun ==
    /\ runStatus' = "CANCELED"
    /\ notAttempted' = [c \in Cells |-> ~IsTerminal(c)]
    /\ UNCHANGED <<mode, hardFailure, cancelRequested, cellState, inflight, verifier, retries,
                   persisted, discarded, extractorResponse>>

\* Poll between cells (and at worker start).
CancelBetweenCells ==
    /\ cancelRequested
    /\ \/ runStatus = "QUEUED"
       \/ /\ runStatus = "RUNNING"
          /\ ActiveWorkers < PoolSize
          /\ \E c \in Cells : cellState[c] = "PENDING" /\ inflight[c] = "none"
    /\ CancelRun
    /\ UNCHANGED <<fuseVars, areaVars, gateVars, extVars>>

\* Poll on the FAIL -> retry boundary, before re-ranking.
CancelAtRetryBoundary(c) ==
    /\ cancelRequested
    /\ runStatus = "RUNNING"
    /\ RetryGuard(c)
    /\ CancelRun
    /\ UNCHANGED <<fuseVars, areaVars, gateVars, extVars>>

\* A call that was in flight when the run was cancelled is not aborted; its
\* response is dropped when it arrives.
DiscardResult(c) ==
    /\ runStatus = "CANCELED"
    /\ inflight[c] # "none"
    /\ inflight' = [inflight EXCEPT ![c] = "none"]
    /\ discarded' = [discarded EXCEPT ![c] = TRUE]
    /\ UNCHANGED <<mode, hardFailure, runStatus, cancelRequested, cellState, verifier, retries,
                   persisted, notAttempted, extractorResponse>>
    /\ UNCHANGED <<fuseVars, areaVars, gateVars, extVars>>

RunOutcomeAnyFallbackFails ==
    IF \A c \in Cells : cellState[c] \notin FallbackReasons THEN "COMPLETED"
    ELSE "FAILED"

\* Run status resolves from the mix of cell outcomes.
RunOutcome ==
    IF \A c \in Cells : cellState[c] \notin FallbackReasons THEN "COMPLETED"
    ELSE IF \A c \in Cells : cellState[c] \in FallbackReasons THEN "FAILED"
    ELSE "PARTIAL"

FinishGuardAnyCell == \E c \in Cells : IsTerminal(c)

FinishGuard == AllTerminal

FinishRun ==
    /\ runStatus = "RUNNING"
    /\ FinishGuard
    /\ runStatus' = RunOutcome
    /\ UNCHANGED <<mode, hardFailure, cancelRequested, cellState, inflight, verifier, retries,
                   persisted, notAttempted, discarded, extractorResponse>>
    /\ UNCHANGED <<fuseVars, areaVars, gateVars, extVars>>

\* RUNNING -> FAILED on a hard failure: an exception of the worker itself,
\* outside the per-cell recovery, ends the run whatever its cells have reached.
HardFailure ==
    /\ runStatus = "RUNNING"
    /\ runStatus' = "FAILED"
    /\ hardFailure' = TRUE
    /\ UNCHANGED <<mode, cancelRequested, cellState, inflight, verifier, retries,
                   persisted, notAttempted, discarded, extractorResponse>>
    /\ UNCHANGED <<fuseVars, areaVars, gateVars, extVars>>

CellStep(c) ==
    \/ Dispatch(c)
    \/ ExtractorReturns(c)
    \/ VerifierReturns(c)
    \/ RetryOnFail(c)
    \/ Accept(c)

NextRun ==
    \/ StartRun
    \/ RequestCancel
    \/ \E c \in Cells : Dispatch(c)
    \/ \E c \in Cells : ExtractorReturns(c)
    \/ \E c \in Cells : VerifierReturns(c)
    \/ \E c \in Cells : RetryOnFail(c)
    \/ \E c \in Cells : Accept(c)
    \/ CancelBetweenCells
    \/ \E c \in Cells : CancelAtRetryBoundary(c)
    \/ \E c \in Cells : DiscardResult(c)
    \/ FinishRun
    \/ HardFailure


-----------------------------------------------------------------------------
(***************************************************************************)
(* Confidence fuser: confidence_from_signals.  Confidences and retrieval   *)
(* scores are in hundredths, the fused score in ten-thousandths.           *)
(***************************************************************************)
ConfSteps == 4

BaseWeight == 45
RetrievalWeight == 35
PassBonus == 1500
PartialBonus == 300
FailPenalty == 2000
ConsistencyBonus == 800
MinConfidence == 500
MaxConfidence == 9800

\* base_confidence in [0, 1]
BaseConfidences == {(100 * k) \div ConfSteps : k \in 0..ConfSteps}
\* retrieval_score = 0.5*semantic + 0.3*lexical + 0.2*structure with a cosine
\* in [-1, 1]: sampled over [-1, 1], which contains its range.
RetrievalScores == {(100 * k) \div ConfSteps : k \in (0 - ConfSteps)..ConfSteps}

FuseInputs ==
    [base_confidence : BaseConfidences,
     retrieval_score : RetrievalScores,
     verifier_status : VerifierStatuses,
     self_consistent : BOOLEAN]

NoFuseInput ==
    [base_confidence |-> 0, retrieval_score |-> 0,
     verifier_status |-> "none", self_consistent |-> FALSE]

Max(a, b) == IF a >= b THEN a ELSE b
Min(a, b) == IF a <= b THEN a ELSE b

\* score before the clamp
RawScore(in) ==
    BaseWeight * in.base_confidence + RetrievalWeight * in.retrieval_score
        + (IF in.verifier_status = "PASS" THEN PassBonus
           ELSE IF in.verifier_status = "PARTIAL" THEN PartialBonus
           ELSE 0 - FailPenalty)
        + (IF in.self_consistent THEN ConsistencyBonus ELSE 0)

ClampUpperOnly(score) == Min(MaxConfidence, score)

\* return max(0.05, min(0.98, score))
Clamp(score) == Max(MinConfidence, Min(MaxConfidence, score))

confidence_from_signals(in) == Clamp(RawScore(in))

FuseIdle == fuseIn = NoFuseInput /\ fuseOut = -1

InitFuse == fuseIn \in FuseInputs /\ fuseOut = -1

Fuse ==
    /\ fuseIn # NoFuseInput
    /\ fuseOut = -1
    /\ fuseOut' = confidence_from_signals(fuseIn)
    /\ UNCHANGED fuseIn
    /\ UNCHANGED <<runVars, areaVars, gateVars, extVars>>


-----------------------------------------------------------------------------
(***************************************************************************)
(* PDF anchor geometry.  Coordinates are page units (integers here); a     *)
(* bbox is a sequence of values, a value being a number or NotANumber      *)
(* (anything Number(value) does not make finite); NoBbox is null/undefined.*)
(***************************************************************************)
EdgeSlack == 2

BoundsTolerance == 1
MinAreaRatioDenominator == 10000
MaxAreaRatioPercent == 35
MinMatchConfidence == 55

NoBbox == <<>>

\* Stands for a value that fails Number.isFinite.
NotANumber == -99999

IsFiniteNumber(v) == v # NotANumber

\* normalizeBbox: null unless four finite numbers with positive extent after
\* min/max canonicalisation to [left, bottom, right, top].
normalizeBbox(bbox) ==
    IF bbox = NoBbox \/ Len(bbox) # 4 THEN NoBbox
    ELSE IF \E i \in 1..4 : ~IsFiniteNumber(bbox[i]) THEN NoBbox
    ELSE LET left == Min(bbox[1], bbox[3])
             right == Max(bbox[1], bbox[3])
             bottom == Min(bbox[2], bbox[4])
             top == Max(bbox[2], bbox[4])
         IN IF right <= left \/ top <= bottom THEN NoBbox
            ELSE <<left, bottom, right, top>>

isUsableBbox(bbox) == \E given \in {bbox} : normalizeBbox(given) # NoBbox

AreaRatioUpperOnly(n, pageWidth, pageHeight) ==
    (n[3] - n[1]) * (n[4] - n[2]) * 100 <= MaxAreaRatioPercent * pageWidth * pageHeight

\* areaRatio >= 0.0001 && areaRatio <= 0.35, with
\* areaRatio = ((x1 - x0) * (y1 - y0)) / (pageWidth * pageHeight).
\* Over integers area / pageArea >= 1 / d is area >= ceil(pageArea / d).
AreaRatioInBand(n, pageWidth, pageHeight) ==
    LET area == (n[3] - n[1]) * (n[4] - n[2])
        pageArea == pageWidth * pageHeight
    IN /\ area >= (pageArea + MinAreaRatioDenominator - 1) \div MinAreaRatioDenominator
       /\ area * 100 <= MaxAreaRatioPercent * pageArea

WithinPage(n, pageWidth, pageHeight) ==
    ~(\/ n[1] < 0 - BoundsTolerance
      \/ n[2] < 0 - BoundsTolerance
      \/ n[3] > pageWidth + BoundsTolerance
      \/ n[4] > pageHeight + BoundsTolerance)

hasPlausibleArea(bbox, pageWidth, pageHeight) ==
    \E normalized \in {normalizeBbox(bbox)} :
        IF normalized = NoBbox THEN FALSE
        ELSE IF pageWidth <= 0 \/ pageHeight <= 0 THEN FALSE
        ELSE IF ~WithinPage(normalized, pageWidth, pageHeight) THEN FALSE
        ELSE AreaRatioInBand(normalized, pageWidth, pageHeight)

\* Sample pages: US Letter in points, and a page whose size is unknown.
LetterPage == [width |-> 612, height |-> 792]
UnknownPage == [width |-> 0, height |-> 0]

XCoords == ((0 - EdgeSlack)..0) \cup {10, 12, 300}
              \cup (LetterPage.width..(LetterPage.width + EdgeSlack))
YCoords == ((0 - EdgeSlack)..0) \cup {10, 12, 300}
              \cup (LetterPage.height..(LetterPage.height + EdgeSlack))

AreaBboxes ==
    {<<x0, y0, x1, y1>> : x0 \in XCoords, y0 \in YCoords, x1 \in XCoords, y1 \in YCoords}
        \cup {NoBbox, <<10, 10, 300>>, <<10, 10, NotANumber, 300>>}

AreaInputs == [bbox : AreaBboxes, page : {LetterPage, UnknownPage}]

NoAreaInput == [bbox |-> NoBbox, page |-> UnknownPage]

AreaIdle == areaIn = NoAreaInput /\ areaOut = "idle"

InitArea == areaIn \in AreaInputs /\ areaOut = "pending"

CheckArea ==
    /\ areaOut = "pending"
    /\ areaOut' = IF hasPlausibleArea(areaIn.bbox, areaIn.page.width, areaIn.page.height)
                  THEN "plausible" ELSE "implausible"
    /\ UNCHANGED areaIn
    /\ UNCHANGED <<runVars, fuseVars, gateVars, extVars>>


-----------------------------------------------------------------------------
(***************************************************************************)
(* PdfCitationViewer: what is drawn for a /render-pdf-page response.       *)
(* match_confidence is in hundredths; "undefined" is an absent field.      *)
(***************************************************************************)
\* typeof match_confidence !== 'number'
UndefinedConfidence == -1

NoMeta == UnknownPage
NoEvent == [event |-> "none", fallback_reason |-> "none"]

DefaultFallbackReason == "bbox_unavailable_or_low_confidence"

\* Server-side and citation bboxes the viewer may be handed.
GateBboxes ==
    { NoBbox,
      <<300, 200, 100, 100>>,     \* ordinary span, corners given swapped
      <<10, 10, 12, 12>>,         \* speck
      <<500, 100, 612 + EdgeSlack, 200>> }  \* past the right edge

MatchConfidences ==
    {UndefinedConfidence, MinMatchConfidence - 1, MinMatchConfidence}
BboxSources == {"undefined", "matched_snippet", "none"}
WarningCodes == {"none", "low_match_confidence"}

ImageSize == [width |-> 1102, height |-> 1426]
NoSize == [width |-> 0, height |-> 0]

\* renderedPage === null
NoPage ==
    [present |-> FALSE, matched_bbox |-> NoBbox, match_confidence |-> UndefinedConfidence,
     bbox_source |-> "undefined", warning_code |-> "none", page |-> UnknownPage,
     image |-> NoSize]

RenderedPdfPages ==
    [present : {TRUE},
     matched_bbox : GateBboxes,
     match_confidence : MatchConfidences,
     bbox_source : BboxSources,
     warning_code : WarningCodes,
     page : {LetterPage, UnknownPage},
     image : {ImageSize}]

\* ---- values derived on every render ----
normalizedRenderedBbox ==
    IF ~renderedPage.present THEN NoBbox ELSE normalizeBbox(renderedPage.matched_bbox)
normalizedCitationBbox == normalizeBbox(citationBbox)

effectiveBBox ==
    IF normalizedRenderedBbox # NoBbox THEN normalizedRenderedBbox
    ELSE IF normalizedCitationBbox # NoBbox THEN normalizedCitationBbox
    ELSE NoBbox

matchConfidence ==
    IF renderedPage.present /\ renderedPage.match_confidence # UndefinedConfidence
    THEN renderedPage.match_confidence
    ELSE IF normalizedRenderedBbox # NoBbox THEN 100 ELSE 0

bboxSource ==
    IF renderedPage.present /\ renderedPage.bbox_source # "undefined"
    THEN renderedPage.bbox_source
    ELSE IF normalizedRenderedBbox # NoBbox THEN "matched_snippet" ELSE "none"

\* pageMeta?.width || renderedPage?.page_width || 0
renderedPageWidth ==
    IF pageMeta.width # 0 THEN pageMeta.width
    ELSE IF renderedPage.present THEN renderedPage.page.width ELSE 0
renderedPageHeight ==
    IF pageMeta.height # 0 THEN pageMeta.height
    ELSE IF renderedPage.present THEN renderedPage.page.height ELSE 0

displayedWidth ==
    IF imageDisplaySize.width # 0 THEN imageDisplaySize.width
    ELSE IF renderedPage.present THEN renderedPage.image.width ELSE 0
displayedHeight ==
    IF imageDisplaySize.height # 0 THEN imageDisplaySize.height
    ELSE IF renderedPage.present THEN renderedPage.image.height ELSE 0

bboxPlausible ==
    \E effective \in {effectiveBBox} :
        IF effective = NoBbox THEN FALSE
        ELSE hasPlausibleArea(effective, renderedPageWidth, renderedPageHeight)

ConfidenceIgnored(confidence) == TRUE

\* matchConfidence >= 0.55
ConfidenceClears(confidence) == confidence >= MinMatchConfidence

canDrawBBox ==
    /\ effectiveBBox # NoBbox
    /\ isUsableBbox(effectiveBBox)
    /\ bboxPlausible
    /\ ConfidenceClears(matchConfidence)
    /\ bboxSource # "none"

\* overlayStyle is non-null, for a given value of canDrawBBox
OverlayStyleFor(canDraw) ==
    /\ effectiveBBox # NoBbox /\ canDraw
    /\ ~(displayedWidth <= 0 \/ displayedHeight <= 0)

hasOverlayStyle == OverlayStyleFor(canDrawBBox)

OverlayWithoutGate(canDraw, overlayStyle) ==
    ~loading /\ renderedPage.present /\ effectiveBBox # NoBbox

\* {canDrawBBox && overlayStyle && <div .../>} inside {!loading && renderedPage && ...}
OverlayFor(canDraw, overlayStyle) ==
    ~loading /\ renderedPage.present /\ canDraw /\ overlayStyle

OverlayRendered == OverlayFor(canDrawBBox, hasOverlayStyle)

\* {!canDrawBBox && <div>...</div>}
NoBoxMessageFor(canDraw) ==
    IF ~loading /\ renderedPage.present /\ ~canDraw
    THEN IF renderedPage.warning_code # "none" THEN "no_bbox_rendered_with_code"
         ELSE "bbox_unavailable_notice"
    ELSE "none"

NoBoxMessageRendered == NoBoxMessageFor(canDrawBBox)

\* fallback_reason: renderedPage.warning_code || 'bbox_unavailable_or_low_confidence'
FallbackReason ==
    IF renderedPage.warning_code # "none" THEN renderedPage.warning_code
    ELSE DefaultFallbackReason

\* The scroll effect, run after a render of a page: the event it logs.
ScrollEffectEvent(canDraw, overlayStyle) ==
    IF ~overlayStyle \/ ~canDraw
    THEN [event |-> "citation_scroll_fallback_used", fallback_reason |-> FallbackReason]
    ELSE [event |-> "citation_scroll_applied", fallback_reason |-> "none"]

\* State update, then the render and the scroll effect, on the new state;
\* canDrawBBox and overlayStyle are computed once per render.
RerenderPage ==
    \E canDraw \in {canDrawBBox'} :
        \E overlayStyle \in {OverlayStyleFor(canDraw)'} :
            /\ overlayDrawn' = OverlayFor(canDraw, overlayStyle)'
            /\ noBoxMessage' = NoBoxMessageFor(canDraw)'
            /\ lastEvent' = ScrollEffectEvent(canDraw, overlayStyle)'

GateIdle ==
    /\ renderedPage = NoPage
    /\ loading = FALSE
    /\ citationBbox = NoBbox
    /\ pageMeta = NoMeta
    /\ imageDisplaySize = NoSize
    /\ overlayDrawn = FALSE
    /\ noBoxMessage = "none"
    /\ lastEvent = NoEvent

InitGate ==
    /\ renderedPage = NoPage
    /\ loading = FALSE
    /\ citationBbox \in {NoBbox, <<100, 100, 300, 200>>}
    /\ pageMeta \in {NoMeta, LetterPage}
    /\ imageDisplaySize = NoSize
    /\ overlayDrawn = FALSE
    /\ noBoxMessage = "none"
    /\ lastEvent = NoEvent

\* The render effect issues a request: setLoading(true); setError(null).
RenderStarts ==
    /\ ~loading
    /\ loading' = TRUE
    /\ overlayDrawn' = FALSE
    /\ noBoxMessage' = "none"
    /\ UNCHANGED <<renderedPage, citationBbox, pageMeta, imageDisplaySize, lastEvent>>
    /\ UNCHANGED <<runVars, fuseVars, areaVars, extVars>>

\* setRenderedPage(data); setLoading(false)
RenderSucceeds ==
    /\ loading
    /\ loading' = FALSE
    /\ \E data \in RenderedPdfPages : renderedPage' = data
    /\ UNCHANGED <<citationBbox, pageMeta, imageDisplaySize>>
    /\ RerenderPage
    /\ UNCHANGED <<runVars, fuseVars, areaVars, extVars>>

\* catch: setRenderedPage(null); setError(...); 'citation_target_missing'
RenderFails ==
    /\ loading
    /\ loading' = FALSE
    /\ renderedPage' = NoPage
    /\ UNCHANGED <<citationBbox, pageMeta, imageDisplaySize>>
    /\ overlayDrawn' = FALSE
    /\ noBoxMessage' = "none"
    /\ lastEvent' = [event |-> "citation_target_missing", fallback_reason |-> "pdf_render_failed"]
    /\ UNCHANGED <<runVars, fuseVars, areaVars, extVars>>

\* updateSize: the <img> of the rendered page is measured.
ImageMeasured ==
    /\ renderedPage.present /\ ~loading
    /\ \E size \in {NoSize, [width |-> 551, height |-> 713]} : imageDisplaySize' = size
    /\ UNCHANGED <<renderedPage, loading, citationBbox, pageMeta>>
    /\ RerenderPage
    /\ UNCHANGED <<runVars, fuseVars, areaVars, extVars>>

NextGate == RenderStarts \/ RenderSucceeds \/ RenderFails \/ ImageMeasured

-----------------------------------------------------------------------------
(***************************************************************************)
(* One cell of _extract_field_cell, followed statement by statement:        *)
(* extract, verify, one expanded retry on FAIL, the self-consistency        *)
(* re-extraction of the high profile, confidence fusion, persistence.       *)
(* Candidate scores are final scores in hundredths.                         *)
(***************************************************************************)
MaxPool == 2
ScoreSteps == 2

QualityProfiles == {"high", "balanced", "fast"}

CandidateScores == {(100 * k) \div ScoreSteps : k \in 0..ScoreSteps}

\* Ranked pools: final scores in descending order, as the ranker returns them.
RankedPools(n) ==
    {p \in [1..n -> CandidateScores] : \A i \in 1..(n - 1) : p[i] >= p[i + 1]}
CandidatePools == UNION {RankedPools(n) : n \in 1..MaxPool}
ExpandedPools == RankedPools(MaxPool + 1)

NoPrimary == [candidate_index |-> -1, confidence |-> 0]

NoCell ==
    [pc |-> "idle", quality_profile |-> "fast", candidates |-> <<>>, pass |-> 0,
     primary |-> NoPrimary, verifier_status |-> "none", self_checks |-> 0,
     self_consistent |-> FALSE, retrieval_score |-> 0, confidence_score |-> -1]

CellIdle == cell = NoCell

\* The run's quality_profile and the truncated first-pass pool are in hand.
InitCell ==
    \E profile \in QualityProfiles, pool \in CandidatePools :
        cell = [NoCell EXCEPT !.pc = "extract", !.quality_profile = profile,
                              !.candidates = pool, !.pass = 1]

\* primary = self.llm_client.extract(field, candidates, quality_profile):
\* candidate_index is 0-based into the candidates sent.
ExtractPrimary ==
    /\ cell.pc = "extract"
    /\ \E idx \in 0..(Len(cell.candidates) - 1), conf \in {0, 100} :
          cell' = [cell EXCEPT !.pc = "verify",
                               !.primary = [candidate_index |-> idx, confidence |-> conf]]
    /\ UNCHANGED <<runVars, fuseVars, areaVars, gateVars, cacheVars, citeVars, backVars, frontVars>>

\* verifier = self.llm_client.verify(field, primary["value"], ...)
VerifyPrimary ==
    /\ cell.pc = "verify"
    /\ \E status \in VerifierStatuses :
          cell' = [cell EXCEPT !.verifier_status = status,
                               !.pc = IF status = "FAIL" /\ cell.pass = 1 THEN "retry"
                                      ELSE "self_consistency"]
    /\ UNCHANGED <<runVars, fuseVars, areaVars, gateVars, cacheVars, citeVars, backVars, frontVars>>

\* if verifier_status == "FAIL": expanded pool, re-assembly; extract and
\* verify run once more on the expanded candidates.
RetryExpanded ==
    /\ cell.pc = "retry"
    /\ \E pool \in ExpandedPools :
          cell' = [cell EXCEPT !.pc = "extract", !.candidates = pool, !.pass = 2]
    /\ UNCHANGED <<runVars, fuseVars, areaVars, gateVars, cacheVars, citeVars, backVars, frontVars>>

SelfCheckDueEveryTier == TRUE

\* if quality_profile == "high":
SelfCheckDue == cell.quality_profile = "high"

\* alternative = self.llm_client.extract(field, reversed(candidates), ...);
\* self_consistent = primary value equals alternative value, else False.
SelfConsistencyCheck ==
    /\ cell.pc = "self_consistency"
    /\ IF SelfCheckDue
       THEN \E same \in BOOLEAN :
               cell' = [cell EXCEPT !.pc = "fuse", !.self_consistent = same,
                                    !.self_checks = @ + 1]
       ELSE cell' = [cell EXCEPT !.pc = "fuse"]
    /\ UNCHANGED <<runVars, fuseVars, areaVars, gateVars, cacheVars, citeVars, backVars, frontVars>>

FedRetrievalScoreTop == cell.candidates[1]

\* retrieval_score: the final score of the candidate the extractor cited.
FedRetrievalScore == cell.candidates[cell.primary.candidate_index + 1]

\* confidence = confidence_from_signals(...); the cell is persisted.
FuseAndPersist ==
    /\ cell.pc = "fuse"
    /\ \E score \in {FedRetrievalScore} :
          cell' = [cell EXCEPT
                      !.pc = "persisted",
                      !.retrieval_score = score,
                      !.confidence_score = confidence_from_signals(
                          [base_confidence |-> cell.primary.confidence,
                           retrieval_score |-> score,
                           verifier_status |-> cell.verifier_status,
                           self_consistent |-> cell.self_consistent])]
    /\ UNCHANGED <<runVars, fuseVars, areaVars, gateVars, cacheVars, citeVars, backVars, frontVars>>

NextCell ==
    \/ ExtractPrimary
    \/ VerifyPrimary
    \/ RetryExpanded
    \/ SelfConsistencyCheck
    \/ FuseAndPersist


-----------------------------------------------------------------------------
(***************************************************************************)
(* Embedding cache: concurrent cells of one document version call           *)
(* _get_or_create_block_embeddings over the same blocks and model.          *)
(***************************************************************************)
NumCallers == 2
NumBlocks == 2

Callers == 1..NumCallers
Blocks == 1..NumBlocks

\* The vector the embedding service returns for the text of a block under
\* the configured model: determined by the text.
Embed(b) == [of |-> b, model |-> "text-embedding-3-small"]
NoVector == [of |-> 0, model |-> "none"]

\* A row of document_block_embeddings; created_by stands for created_at.
EmbeddingRow(b, w) == [block_id |-> b, embedding_json |-> Embed(b), created_by |-> w]

CachedBlocks(table) == {r.block_id : r \in table}

CachedVectorIgnored(table, b) == NoVector

CachedVector(table, b) == (CHOOSE r \in table : r.block_id = b).embedding_json

NoEmbedCall ==
    [pc |-> "idle", existing |-> {}, new_embeddings |-> {}, upserts |-> {},
     aligned_embeddings |-> [b \in Blocks |-> NoVector]]

CacheIdle ==
    /\ document_block_embeddings = {}
    /\ embeddingServiceUp = FALSE
    /\ embedCall = [w \in Callers |-> NoEmbedCall]

\* Earlier runs may have cached any of the blocks.
InitCache ==
    /\ \E cached \in SUBSET Blocks :
          document_block_embeddings = {EmbeddingRow(b, 0) : b \in cached}
    /\ embeddingServiceUp \in BOOLEAN
    /\ embedCall = [w \in Callers |-> [NoEmbedCall EXCEPT !.pc = "select"]]

\* existing = self.db.fetch_all("SELECT block_id, embedding_json ...")
SelectExisting(w) ==
    /\ embedCall[w].pc = "select"
    /\ embedCall' = [embedCall EXCEPT
          ![w].pc = "embed",
          ![w].existing = document_block_embeddings]
    /\ UNCHANGED <<document_block_embeddings, embeddingServiceUp>>
    /\ UNCHANGED <<runVars, fuseVars, areaVars, gateVars, cellVars, citeVars, backVars, frontVars>>

\* missing_texts = [... if b["block_id"] not in existing];
\* new_embeddings = self.embedding_client.embed_texts(missing_texts).
\* With the service down nothing is computed and nothing will be stored.
EmbedMissing(w) ==
    /\ embedCall[w].pc = "embed"
    /\ \E missing \in {Blocks \ CachedBlocks(embedCall[w].existing)} :
        \E computed \in {IF embeddingServiceUp THEN missing ELSE {}} :
          embedCall' = [embedCall EXCEPT
              ![w].pc = "store",
              ![w].new_embeddings = computed,
              ![w].upserts = computed]
    /\ UNCHANGED <<document_block_embeddings, embeddingServiceUp>>
    /\ UNCHANGED <<runVars, fuseVars, areaVars, gateVars, cellVars, citeVars, backVars, frontVars>>

InsertKeepingOld(table, row) == table \cup {row}

\* INSERT OR REPLACE on the key (document_version_id, block_id, model): a
\* row with the same key is deleted before the new one is inserted.
InsertOrReplace(table, row) ==
    {r \in table : r.block_id # row.block_id} \cup {row}

\* self.db.executemany("INSERT OR REPLACE ...", upserts), one row at a time.
StoreInCache(w) ==
    /\ embedCall[w].pc = "store"
    /\ \E b \in embedCall[w].upserts :
          /\ document_block_embeddings' =
                InsertOrReplace(document_block_embeddings, EmbeddingRow(b, w))
          /\ embedCall' = [embedCall EXCEPT ![w].upserts = @ \ {b}]
    /\ UNCHANGED embeddingServiceUp
    /\ UNCHANGED <<runVars, fuseVars, areaVars, gateVars, cellVars, citeVars, backVars, frontVars>>

\* return aligned_embeddings: for every block the vector read from the
\* cache or just computed, none where there is neither.
ReturnAligned(w) ==
    /\ embedCall[w].pc = "store"
    /\ embedCall[w].upserts = {}
    /\ embedCall' = [embedCall EXCEPT
          ![w].pc = "returned",
          ![w].aligned_embeddings =
              [b \in Blocks |->
                  IF b \in CachedBlocks(embedCall[w].existing)
                  THEN CachedVector(embedCall[w].existing, b)
                  ELSE IF b \in embedCall[w].new_embeddings THEN Embed(b)
                  ELSE NoVector]]
    /\ UNCHANGED <<document_block_embeddings, embeddingServiceUp>>
    /\ UNCHANGED <<runVars, fuseVars, areaVars, gateVars, cellVars, citeVars, backVars, frontVars>>

NextCache ==
    \/ \E w \in Callers : SelectExisting(w)
    \/ \E w \in Callers : EmbedMissing(w)
    \/ \E w \in Callers : StoreInCache(w)
    \/ \E w \in Callers : ReturnAligned(w)


-----------------------------------------------------------------------------
(***************************************************************************)
(* Citation resolver (common.ts, current copy: lines 113-283 of the file). *)
(* A string is a sequence of lexemes: words, whitespace " " and            *)
(* punctuation marks; words are matched whole.  Scores are in 1/1200       *)
(* (overlap ratios in twelfths, exact for token sets of up to four).       *)
(***************************************************************************)
MaxCitations == 2

Separators == {",", "-", "."}

\* String.prototype.toLowerCase on a lexeme.
LowerCase(w) ==
    CASE w = "October" -> "october"
      [] w = "Effective" -> "effective"
      [] w = "This" -> "this"
      [] w = "Agreement" -> "agreement"
      [] w = "Governing" -> "governing"
      [] w = "Law" -> "law"
      [] w = "Delaware" -> "delaware"
      [] OTHER -> w

RECURSIVE TrimLeft(_)
TrimLeft(s) == IF s # <<>> /\ Head(s) = " " THEN TrimLeft(Tail(s)) ELSE s

Reverse(s) == [i \in 1..Len(s) |-> s[Len(s) + 1 - i]]

\* String.prototype.trim
TrimSpaces(s) == Reverse(TrimLeft(Reverse(TrimLeft(s))))

ToLower(value) == [i \in 1..Len(value) |-> LowerCase(value[i])]

\* .replace(/\s+/g, ' ')
CollapseSpaces(value) ==
    LET collapsed[i \in 0..Len(value)] ==
            IF i = 0 THEN <<>>
            ELSE IF value[i] = " " /\ i > 1 /\ value[i - 1] = " " THEN collapsed[i - 1]
            ELSE Append(collapsed[i - 1], value[i])
    IN collapsed[Len(value)]

\* .replace(/[^\w\s]/g, ' '): the blanks that replace punctuation are not collapsed.
PunctuationToSpace(value) ==
    [i \in 1..Len(value) |-> IF value[i] \in Separators THEN " " ELSE value[i]]

normalizeForMatch(value) ==
    TrimSpaces(PunctuationToSpace(CollapseSpaces(ToLower(value))))

\* .length of a string
RECURSIVE StringLength(_)
StringLength(s) == IF s = <<>> THEN 0 ELSE Len(Head(s)) + StringLength(Tail(s))

\* norm.split(' ').filter((token) => token.length > 2), as a Set
TokensOf(norm) ==
    {norm[i] : i \in {j \in 1..Len(norm) : norm[j] # " " /\ Len(norm[j]) > 2}}

TokenSet(text) == TokensOf(normalizeForMatch(text))

\* overlap / Math.max(leftTokens.size, rightTokens.size), in twelfths
OverlapRatio(leftTokens, rightTokens) ==
    IF leftTokens = {} \/ rightTokens = {} THEN 0
    ELSE (Cardinality(leftTokens \cap rightTokens) * 12)
             \div Max(Cardinality(leftTokens), Cardinality(rightTokens))

overlapScore(left, right) == OverlapRatio(TokenSet(left), TokenSet(right))

\* String.prototype.includes
Includes(hay, needle) ==
    \E i \in 0..(Len(hay) - Len(needle)) : SubSeq(hay, i + 1, i + Len(needle)) = needle

\* if (normProbe && normProbe.length >= minLength && normSnippet.includes(normProbe)) score += bonus
SubstringBonus(normSnippet, normProbe, minLength, bonus) ==
    IF normProbe # <<>> /\ StringLength(normProbe) >= minLength /\ Includes(normSnippet, normProbe)
    THEN bonus ELSE 0

\* The part of the score a non-empty snippet earns from the three probes.
SnippetScore(snippet, quoteProbe, valueProbe, reasoningProbe) ==
    (IF quoteProbe = <<>> THEN 0
     ELSE 240 * overlapScore(snippet, quoteProbe)
            + SubstringBonus(normalizeForMatch(snippet), normalizeForMatch(quoteProbe), 8, 1920))
    + (IF valueProbe = <<>> THEN 0
       ELSE 220 * overlapScore(snippet, valueProbe)
              + SubstringBonus(normalizeForMatch(snippet), normalizeForMatch(valueProbe), 6, 1680))
    + (IF reasoningProbe = <<>> THEN 0 ELSE 80 * overlapScore(snippet, reasoningProbe))

\* The bonuses for a bounding box, a selector and the cell's page.
AnchorScore(citation, c) ==
    (IF Len(citation.bbox) = 4 THEN 300 ELSE 0)
    + (IF citation.selector # "" THEN 240 ELSE 0)
    + (IF citation.page = c.page THEN 360 ELSE 0)

\* reasoning is under 280 characters, so .slice(0, 280) keeps all of it
scoreCitationAgainstCell(citation, c) ==
    IF ~c.present THEN 0
    ELSE (IF TrimSpaces(citation.snippet) # <<>>
          THEN SnippetScore(TrimSpaces(citation.snippet), TrimSpaces(c.quote),
                            TrimSpaces(c.value), TrimSpaces(c.reasoning))
          ELSE 0)
         + AnchorScore(citation, c)

\* Boolean(c.snippet || c.selector || c.page || c.bbox)
Viable(citation) ==
    citation.snippet # <<>> \/ citation.selector # "" \/ citation.page # 0
        \/ citation.bbox # NoBbox

\* const viable = citations.filter(...), as the positions in citations, in order
ViableOf(citations) ==
    LET viable[i \in 0..Len(citations)] ==
            IF i = 0 THEN <<>>
            ELSE IF Viable(citations[i]) THEN Append(viable[i - 1], i) ELSE viable[i - 1]
    IN viable[Len(citations)]

PoolOrAll(viable, citations) == [i \in 1..Len(citations) |-> i]

\* const pool = viable.length ? viable : citations
PoolOr(viable, citations) ==
    IF viable # <<>> THEN viable ELSE [i \in 1..Len(citations) |-> i]

PoolOf(citations) == PoolOr(ViableOf(citations), citations)

ScoreBeatsOrTies(score, bestScore) == score >= bestScore

\* if (score > bestScore)
ScoreBeats(score, bestScore) == score > bestScore

\* let best = pool[0]; let bestScore = -1; pool.forEach(...)
BestOfPool(citations, pool, c) ==
    LET loop[k \in 0..Len(pool)] ==
            IF k = 0 THEN [best |-> pool[1], bestScore |-> -1200]
            ELSE IF ScoreBeats(scoreCitationAgainstCell(citations[pool[k]], c),
                               loop[k - 1].bestScore)
                 THEN [best |-> pool[k],
                       bestScore |-> scoreCitationAgainstCell(citations[pool[k]], c)]
                 ELSE loop[k - 1]
    IN IF ~c.present THEN pool[1] ELSE loop[Len(pool)].best

\* pickPrimaryCitation: the position of the returned citation, 0 for null.
pickPrimaryCitation(citations, c) ==
    IF citations = <<>> THEN 0 ELSE BestOfPool(citations, PoolOf(citations), c)

\* const probes = [cell?.quote, cell?.value].map(trim).filter(Boolean)
ProbesOf(c) ==
    (IF TrimSpaces(c.quote) # <<>> THEN <<TrimSpaces(c.quote)>> ELSE <<>>)
        \o (IF TrimSpaces(c.value) # <<>> THEN <<TrimSpaces(c.value)>> ELSE <<>>)

MatchKind(normBlock, normProbe, overlap) ==
    IF normProbe = <<>> THEN "skipped"
    ELSE IF Includes(normBlock, normProbe) THEN "substring"
    ELSE IF overlap > 0 THEN "overlap"
    ELSE "none"

\* How one probe meets a block in scoreBlockAgainstCell.
ProbeMatch(block, probe) ==
    MatchKind(normalizeForMatch(block.text), normalizeForMatch(probe),
              overlapScore(block.text, probe))

\* score += 2.5 for a substring match, else += overlapScore(block.text, probe)
ProbeGain(match, overlap) ==
    IF match = "substring" THEN 3000 ELSE IF match = "skipped" THEN 0 ELSE 100 * overlap

scoreBlockAgainstCell(block, probes, pageHint) ==
    IF block.text = <<>> \/ block.citations = <<>> THEN 0
    ELSE
      LET sum[k \in 0..Len(probes)] ==
              IF k = 0 THEN 0
              ELSE sum[k - 1] + ProbeGain(ProbeMatch(block, probes[k]),
                                          overlapScore(block.text, probes[k]))
      IN sum[Len(probes)]
           + (IF \E i \in 1..Len(block.citations) : block.citations[i].page = pageHint
              THEN 360 ELSE 0)

\* return bestScore >= 0.2 ? bestBlock : null
BlockAboveThreshold(result) == IF result.bestScore >= 240 THEN result.bestBlock ELSE 0

\* let bestBlock = null; let bestScore = 0; blocks.forEach(...)
BestOfBlocks(blocks, probes, pageHint) ==
    LET loop[k \in 0..Len(blocks)] ==
            IF k = 0 THEN [bestBlock |-> 0, bestScore |-> 0]
            ELSE IF scoreBlockAgainstCell(blocks[k], probes, pageHint) > loop[k - 1].bestScore
                 THEN [bestBlock |-> k,
                       bestScore |-> scoreBlockAgainstCell(blocks[k], probes, pageHint)]
                 ELSE loop[k - 1]
    IN BlockAboveThreshold(loop[Len(blocks)])

\* pickBestBlockForCell: the position of the block, 0 for null.
pickBestBlockForCell(blocks, c) ==
    IF blocks = <<>> \/ ~c.present \/ ProbesOf(c) = <<>> THEN 0
    ELSE BestOfBlocks(blocks, ProbesOf(c), c.page)

NoResolution == [from |-> "null", block |-> 0, citation |-> 0]
Unresolved == [from |-> "pending", block |-> 0, citation |-> 0]

\* if (direct) return direct; return pickPrimaryCitation(bestBlock?.citations, cell)
ResolutionOf(blocks, c, direct, bestBlock) ==
    IF direct # 0 THEN [from |-> "cell", block |-> 0, citation |-> direct]
    ELSE IF bestBlock = 0 THEN NoResolution
    ELSE [from |-> "block", block |-> bestBlock,
          citation |-> pickPrimaryCitation(blocks[bestBlock].citations, c)]

\* resolvePrimaryCitation: where the citation came from and its position.
resolvePrimaryCitation(blocks, c) ==
    ResolutionOf(blocks, c, pickPrimaryCitation(c.citations, c),
                 pickBestBlockForCell(blocks, c))

\* The citation a resolution stands for.
ResolvedCitation(in, out) ==
    IF out.from = "cell" THEN in.cell.citations[out.citation]
    ELSE in.blocks[out.block].citations[out.citation]

\* expandIsoDateProbes (PdfCitationViewer.tsx): the spelled-out variants of
\* a YYYY-MM-DD value; Number() and the month tables are given for the
\* digit strings of the inputs.
expandIsoDateProbes(value) ==
    LET normalized == TrimSpaces(value)
        Digits == {"2014", "10", "01", "13"}
        NumberOf == [d \in Digits |->
                        CASE d = "2014" -> 2014 [] d = "10" -> 10 [] d = "01" -> 1 [] d = "13" -> 13]
        Decimal(n) == CASE n = 1 -> "1" [] n = 10 -> "10" [] n = 13 -> "13" [] OTHER -> "2014"
        monthNames == [m \in 1..12 |-> IF m = 10 THEN "October" ELSE "Month"]
        monthShort == [m \in 1..12 |-> IF m = 10 THEN "Oct" ELSE "Mon"]
        matches ==
            /\ Len(normalized) = 5 /\ normalized[2] = "-" /\ normalized[4] = "-"
            /\ {normalized[1], normalized[3], normalized[5]} \subseteq Digits
            /\ Len(normalized[1]) = 4 /\ Len(normalized[3]) = 2 /\ Len(normalized[5]) = 2
    IN IF ~matches THEN <<>>
       ELSE LET year == normalized[1]
                month == NumberOf[normalized[3]]
                day == Decimal(NumberOf[normalized[5]])
            IN IF month < 1 \/ month >= 13 THEN <<>>
               ELSE << <<monthNames[month], " ", day, ",", " ", year>>,
                       <<monthShort[month], " ", day, ",", " ", year>>,
                       <<day, " ", monthNames[month], " ", year>>,
                       <<day, " ", monthShort[month], " ", year>> >>

\* ---- inputs ----
IsoDate == <<"2014", "-", "10", "-", "01">>
DateSpelled == <<"Effective", " ", "October", " ", "1", ",", " ", "2014", ".">>
DateClause ==
    <<"This", " ", "Agreement", " ", "takes", " ", "effect", " ", "on", " ",
      "October", " ", "1", ",", " ", "2014", ".">>
GoverningLaw == <<"Governing", " ", "Law", " ", "of", " ", "Delaware">>
Blank == <<" ">>

PageBbox == <<72, 90, 300, 110>>

DateCitation == [snippet |-> DateSpelled, selector |-> "", page |-> 2, bbox |-> PageBbox]
LawCitation == [snippet |-> GoverningLaw, selector |-> "", page |-> 1, bbox |-> PageBbox]
BareCitation == [snippet |-> <<>>, selector |-> "", page |-> 0, bbox |-> NoBbox]
BlankCitation == [snippet |-> Blank, selector |-> "", page |-> 0, bbox |-> NoBbox]
BoxCitation == [snippet |-> <<>>, selector |-> "", page |-> 0, bbox |-> PageBbox]

\* SourceCitation values: every combination of snippet, selector and page
\* without a bounding box, a citation with a bounding box only, one with a
\* whitespace-only snippet, and the date block's citation.
CandidateCitations ==
    [snippet : {<<>>, GoverningLaw},
     selector : {"", "p:nth-of-type(3)"},
     page : {0, 1},
     bbox : {NoBbox}]
    \cup {BoxCitation, BlankCitation, DateCitation}

CitationLists == UNION {[1..n -> CandidateCitations] : n \in 0..MaxCitations}

NoCellGiven ==
    [present |-> FALSE, quote |-> <<>>, value |-> <<>>, reasoning |-> <<>>,
     page |-> 0, citations |-> <<>>]

CellsGiven ==
    {NoCellGiven} \cup
    [present : {TRUE}, quote : {<<>>, GoverningLaw}, value : {<<>>, IsoDate},
     reasoning : {<<>>, GoverningLaw}, page : {1, 2}, citations : CitationLists]

BlockOf(text, citations) == [text |-> text, citations |-> citations]

Documents ==
    {<<>>,
     <<BlockOf(GoverningLaw, <<LawCitation>>), BlockOf(DateSpelled, <<DateCitation>>)>>,
     <<BlockOf(DateSpelled, <<BareCitation, DateCitation>>), BlockOf(GoverningLaw, <<LawCitation>>)>>,
     <<BlockOf(DateSpelled, <<>>), BlockOf(GoverningLaw, <<BareCitation>>)>>,
     <<BlockOf(GoverningLaw, <<LawCitation>>), BlockOf(DateClause, <<DateCitation>>)>>,
     <<BlockOf(DateClause, <<DateCitation>>)>>}

\* Field keys of the default template: answers to the first are found
\* early in a document.
FieldKeys == {"parties_entities", "governing_law"}

LatePageCitation == [snippet |-> <<>>, selector |-> "", page |-> 7, bbox |-> PageBbox]
EarlyPageCitation == [snippet |-> <<>>, selector |-> "p:nth-of-type(3)", page |-> 2, bbox |-> NoBbox]

\* Two citations a few hundredths apart, the better one on the later page.
CloseCallLists ==
    {<<LatePageCitation, EarlyPageCitation>>, <<EarlyPageCitation, LatePageCitation>>}

CloseCallCells ==
    [present : {TRUE}, quote : {<<>>, GoverningLaw}, value : {<<>>, IsoDate},
     reasoning : {<<>>, GoverningLaw}, page : {1}, citations : CloseCallLists]

ResolverIdle ==
    /\ resolveIn = [blocks |-> <<>>, cell |-> NoCellGiven, field |-> "governing_law"]
    /\ resolveOut = NoResolution

\* A cell with citations of its own is resolved from them; the document's
\* blocks matter for a cell without.
InitResolver ==
    /\ \/ /\ resolveIn \in [blocks : Documents, cell : CellsGiven, field : {"governing_law"}]
          /\ (resolveIn.cell.citations # <<>> => resolveIn.blocks = <<>>)
       \/ resolveIn \in [blocks : {<<>>}, cell : CloseCallCells, field : FieldKeys]
    /\ resolveOut = Unresolved

Resolve ==
    /\ resolveOut = Unresolved
    /\ resolveOut' = resolvePrimaryCitation(resolveIn.blocks, resolveIn.cell)
    /\ UNCHANGED resolveIn
    /\ UNCHANGED <<runVars, fuseVars, areaVars, gateVars, cellVars, cacheVars, backVars, frontVars>>


-----------------------------------------------------------------------------
(***************************************************************************)
(* Segment assembler: assemble_relevant_segments (legal_hybrid.py), known  *)
(* from HybridExtractionPipeline.md section 4.2 and the RSE settings of    *)
(* src/backend/README.md.  One window per retrieved block, windows         *)
(* deduplicated by span, segments reranked and the top ones kept.  A       *)
(* block's text is a sequence of units: one for a paragraph, two rows for  *)
(* a table.                                                                *)
(***************************************************************************)
NumDocBlocks == 4
MaxSeeds == 2

DocBlocks == 1..NumDocBlocks
BlockTypes == {"paragraph", "table"}

Unit(b, k) == [block |-> b, part |-> k]

BlockText(types, b) ==
    IF types[b] = "table" THEN <<Unit(b, 1), Unit(b, 2)>> ELSE <<Unit(b, 1)>>

\* ranked_candidates: distinct blocks, best first
RankedCandidates ==
    {r \in UNION {[1..n -> DocBlocks] : n \in 1..MaxSeeds} :
        \A i, j \in 1..Len(r) : i # j => r[i] # r[j]}

\* final score of the candidate at a rank: descending with the rank
CandidateScoreAt(ranked, k) == Len(ranked) + 1 - k

\* LEGAL_RSE_WINDOW_RADIUS, LEGAL_RSE_MAX_SEGMENT_CHARS (in units),
\* max_segments
WindowRadii == {1, 2}
SegmentBudgets == {1, 3, 12}
MaxSegmentCounts == {1, 2}

\* prev N + seed block + next N, inside the document
WindowSpan(seed, radius) == <<Max(1, seed - radius), Min(NumDocBlocks, seed + radius)>>

RECURSIVE SpanUnits(_, _, _)
SpanUnits(types, lo, hi) ==
    IF lo > hi THEN 0 ELSE Len(BlockText(types, lo)) + SpanUnits(types, lo + 1, hi)

\* The window shrinks by whole blocks, farthest from the seed first, until
\* its text fits the budget; the seed block always stays.
RECURSIVE FitSpan(_, _, _, _, _)
FitSpan(types, lo, hi, seed, budget) ==
    IF lo = hi \/ SpanUnits(types, lo, hi) <= budget THEN <<lo, hi>>
    ELSE IF hi - seed >= seed - lo THEN FitSpan(types, lo, hi - 1, seed, budget)
    ELSE FitSpan(types, lo + 1, hi, seed, budget)

RECURSIVE WholeText(_, _, _)
WholeText(types, lo, hi) ==
    IF lo > hi THEN <<>> ELSE BlockText(types, lo) \o WholeText(types, lo + 1, hi)

SegmentTextCut(types, span, budget) ==
    SubSeq(WholeText(types, span[1], span[2]), 1,
           Min(budget, Len(WholeText(types, span[1], span[2]))))

\* merge neighboring block text into a segment candidate: whole blocks only
SegmentText(types, span, budget) == WholeText(types, span[1], span[2])

\* seed relevance + observed span relevance
SegmentScore(ranked, k, span) ==
    LET inSpan == {i \in 1..Len(ranked) : ranked[i] >= span[1] /\ ranked[i] <= span[2]}
        sum[i \in 0..Len(ranked)] ==
            IF i = 0 THEN 0
            ELSE sum[i - 1] + (IF i \in inSpan THEN CandidateScoreAt(ranked, i) ELSE 0)
    IN CandidateScoreAt(ranked, k) + sum[Len(ranked)]

SegmentOf(types, ranked, k, span, budget) ==
    [seed |-> ranked[k],
     span |-> span,
     block_ids |-> [i \in 1..(span[2] - span[1] + 1) |-> span[1] + i - 1],
     text |-> SegmentText(types, span, budget),
     score |-> SegmentScore(ranked, k, span)]

\* The segment candidate for the k-th retrieved block.
WindowFor(call, k) ==
    SegmentOf(call.types, call.ranked, k,
              FitSpan(call.types, WindowSpan(call.ranked[k], call.window_radius)[1],
                      WindowSpan(call.ranked[k], call.window_radius)[2],
                      call.ranked[k], call.max_chars),
              call.max_chars)

SpanSeenNever(windows, span) == FALSE

\* Deduplicate windows by span
SpanSeen(windows, span) == \E i \in 1..Len(windows) : windows[i].span = span

\* sorted(..., key=score, reverse=True): stable, so equal scores keep
\* their order of construction
RECURSIVE InsertByScore(_, _)
InsertByScore(sorted, seg) ==
    IF sorted = <<>> THEN <<seg>>
    ELSE IF Head(sorted).score >= seg.score THEN <<Head(sorted)>> \o InsertByScore(Tail(sorted), seg)
    ELSE <<seg>> \o sorted

RECURSIVE SortByScore(_)
SortByScore(windows) ==
    IF windows = <<>> THEN <<>>
    ELSE InsertByScore(SortByScore(SubSeq(windows, 1, Len(windows) - 1)),
                       windows[Len(windows)])

\* top_ranked_segments
TopSegments(windows, max_segments) ==
    SubSeq(SortByScore(windows), 1, Min(max_segments, Len(windows)))

AssemblerIdle ==
    rse = [pc |-> "idle", types |-> <<>>, ranked |-> <<>>, window_radius |-> 0,
           max_chars |-> 0, max_segments |-> 0, next |-> 0, windows |-> <<>>,
           segments |-> <<>>]

InitAssembler ==
    rse \in [pc : {"windows"}, types : [DocBlocks -> BlockTypes], ranked : RankedCandidates,
             window_radius : WindowRadii, max_chars : SegmentBudgets,
             max_segments : MaxSegmentCounts, next : {1}, windows : {<<>>},
             segments : {<<>>}]

BuildWindow ==
    /\ rse.pc = "windows" /\ rse.next <= Len(rse.ranked)
    /\ ~SpanSeen(rse.windows, WindowFor(rse, rse.next).span)
    /\ rse' = [rse EXCEPT !.windows = Append(@, WindowFor(rse, rse.next)),
                          !.next = @ + 1]
    /\ UNCHANGED oldVars /\ UNCHANGED <<rankVars, frontVars>>

SkipDuplicateSpan ==
    /\ rse.pc = "windows" /\ rse.next <= Len(rse.ranked)
    /\ SpanSeen(rse.windows, WindowFor(rse, rse.next).span)
    /\ rse' = [rse EXCEPT !.next = @ + 1]
    /\ UNCHANGED oldVars /\ UNCHANGED <<rankVars, frontVars>>

RerankSegments ==
    /\ rse.pc = "windows" /\ rse.next > Len(rse.ranked)
    /\ rse' = [rse EXCEPT !.pc = "done",
                          !.segments = TopSegments(rse.windows, rse.max_segments)]
    /\ UNCHANGED oldVars /\ UNCHANGED <<rankVars, frontVars>>

NextAssembler == BuildWindow \/ SkipDuplicateSpan \/ RerankSegments

-----------------------------------------------------------------------------
(***************************************************************************)
(* Candidate ranker: retrieve_legal_candidates and _hash_embedding         *)
(* (legal_hybrid.py), known from HybridExtractionPipeline.md sections 4.1  *)
(* and 4.4.  A text is its token set; scores are in 1/10000.  Python's     *)
(* hash() of a string is salted per process, so the bucket of each token   *)
(* is an input fixed for the worker process that executes the run.         *)
(***************************************************************************)
HashDim == 2
NumRankBlocks == 2

Vocabulary == {"governing", "law", "venue"}
FieldQuery == {"governing", "law"}
RankBlocks == 1..NumRankBlocks
RankPasses == 1..2

BlockTokenSets == {{"governing", "law"}, {"law", "venue"}, {"venue"}}

RECURSIVE ISqrtBetween(_, _, _)
ISqrtBetween(n, lo, hi) ==
    IF lo >= hi THEN lo
    ELSE LET mid == (lo + hi + 1) \div 2
         IN IF mid * mid <= n THEN ISqrtBetween(n, mid, hi) ELSE ISqrtBetween(n, lo, mid - 1)

\* vec[idx] += 1.0 for idx = hash(token) % dim (before normalization)
HashCounts(buckets, tokens) ==
    [idx \in 0..(HashDim - 1) |-> Cardinality({t \in tokens : buckets[t] = idx})]

RECURSIVE DotFrom(_, _, _)
DotFrom(a, b, idx) ==
    IF idx >= HashDim THEN 0 ELSE a[idx] * b[idx] + DotFrom(a, b, idx + 1)

\* _cosine of the two L2-normalized vectors, in 1/1000 (rounded down)
CosineOfCounts(a, b) ==
    IF DotFrom(a, a, 0) = 0 \/ DotFrom(b, b, 0) = 0 THEN 0
    ELSE ISqrtBetween((DotFrom(a, b, 0) * DotFrom(a, b, 0) * 1000000)
                          \div (DotFrom(a, a, 0) * DotFrom(b, b, 0)), 0, 1000)

\* _cosine(_hash_embedding(query), _hash_embedding(block["text"]))
HashSemantic(buckets, query, tokens) ==
    CosineOfCounts(HashCounts(buckets, query), HashCounts(buckets, tokens))

\* Stands for the cosine of two text-embedding-3-small vectors, in 1/1000:
\* a fixed function of the two texts.
ModelSemantic(query, tokens) ==
    (1000 * Cardinality(query \cap tokens)) \div Cardinality(query \cup tokens)

\* if query_embedding and block_embeddings[idx]: ... else: hash fallback
UseHash(query_embedding, block_embedding) == ~(query_embedding /\ block_embedding)

\* len(query_tokens & text_tokens) / max(1, len(query_tokens)), in 1/1000
Lexical(query, tokens) ==
    (1000 * Cardinality(query \cap tokens)) \div Max(1, Cardinality(query))

\* 0.1 if block["type"] == "table" else 0.0, in 1/1000
StructurePrior(type) == IF type = "table" THEN 100 ELSE 0

\* final_score = 0.5 * semantic + 0.3 * lexical + 0.2 * structure
FinalScore(semantic, lexical, structure) == 5 * semantic + 3 * lexical + 2 * structure

CandidateOf(r, call, idx) ==
    [block_id |-> idx,
     source |-> IF UseHash(call.query_embedding, r.block_embeddings[idx])
                THEN "hash" ELSE "model",
     final |-> FinalScore(
         IF UseHash(call.query_embedding, r.block_embeddings[idx])
         THEN HashSemantic(r.buckets, r.query, r.blocks[idx].tokens)
         ELSE ModelSemantic(r.query, r.blocks[idx].tokens),
         Lexical(r.query, r.blocks[idx].tokens),
         StructurePrior(r.blocks[idx].type))]

RanksBeforeAscending(a, b) == a.final <= b.final

\* sorted(candidates, key=final, reverse=True): stable
RanksBefore(a, b) == a.final >= b.final

RECURSIVE InsertCandidate(_, _)
InsertCandidate(sorted, c) ==
    IF sorted = <<>> THEN <<c>>
    ELSE IF RanksBefore(Head(sorted), c) THEN <<Head(sorted)>> \o InsertCandidate(Tail(sorted), c)
    ELSE <<c>> \o sorted

RECURSIVE SortedCandidates(_, _, _)
SortedCandidates(r, call, n) ==
    IF n = 0 THEN <<>>
    ELSE InsertCandidate(SortedCandidates(r, call, n - 1), CandidateOf(r, call, n))

\* retrieve_legal_candidates(...)[:top_k]
retrieve_legal_candidates(r, call) ==
    SubSeq(SortedCandidates(r, call, NumRankBlocks), 1, Min(call.top_k, NumRankBlocks))

NoRankCall == [pc |-> "query", query_embedding |-> FALSE, top_k |-> 0, candidates |-> <<>>]

RankerIdle ==
    rank = [up |-> FALSE, buckets |-> [t \in Vocabulary |-> 0], query |-> {},
            blocks |-> <<>>, block_embeddings |-> <<>>,
            calls |-> [p \in RankPasses |-> NoRankCall]]

\* The service is up or down for the whole run; with the service up, a
\* block may still lack a cached vector.
InitRanker ==
    /\ rank \in [up : BOOLEAN,
                 buckets : [Vocabulary -> 0..(HashDim - 1)],
                 query : {FieldQuery},
                 blocks : [RankBlocks -> [tokens : BlockTokenSets, type : BlockTypes]],
                 block_embeddings : {[b \in RankBlocks |-> TRUE],
                                     [b \in RankBlocks |-> b # 1],
                                     [b \in RankBlocks |-> FALSE]},
                 calls : {[p \in RankPasses |-> NoRankCall]}]
    /\ (~rank.up => \A b \in RankBlocks : ~rank.block_embeddings[b])

\* _build_field_query_embeddings: no vector for the field without the
\* service.  The first pass asks for any top_k, the retry for the expanded pool.
EmbedQuery(p) ==
    /\ rank.calls[p].pc = "query"
    /\ \A q \in RankPasses : q < p => rank.calls[q].pc = "ranked"
    /\ \E top_k \in (IF p = 1 THEN 1..NumRankBlocks ELSE {NumRankBlocks}) :
          rank' = [rank EXCEPT !.calls[p] =
                      [pc |-> "rank", query_embedding |-> rank.up, top_k |-> top_k,
                       candidates |-> <<>>]]
    /\ UNCHANGED oldVars /\ UNCHANGED <<segVars, frontVars>>

RankCandidates(p) ==
    /\ rank.calls[p].pc = "rank"
    /\ rank' = [rank EXCEPT !.calls[p].pc = "ranked",
                            !.calls[p].candidates = retrieve_legal_candidates(rank, rank.calls[p])]
    /\ UNCHANGED oldVars /\ UNCHANGED <<segVars, frontVars>>

NextRanker == \E p \in RankPasses : EmbedQuery(p) \/ RankCandidates(p)

-----------------------------------------------------------------------------
(***************************************************************************)
(* Review table (App.tsx): what one table cell renders, the row filter     *)
(* rowHasUnresolved and the AI Result box of the selected cell.  An absent *)
(* optional field is the empty string; confidence is in percent.           *)
(***************************************************************************)
NoAiResult ==
    [present |-> FALSE, fallback_reason |-> "", uncertainty_reason |-> "",
     verifier_status |-> "", confidence_score |-> 0, extraction_method |-> ""]

AiResults ==
    {NoAiResult} \cup
    [present : {TRUE}, fallback_reason : {"", "NOT_FOUND"},
     uncertainty_reason : {"", "no supporting clause"},
     verifier_status : {"", "SKIPPED", "PASS", "FAIL"},
     confidence_score : {30, 80}, extraction_method : {"", "llm_hybrid"}]

\* TableCell
TableCells ==
    [ai_result : AiResults, review_status : {"", "CONFIRMED"},
     effective_value : {"", "Acme Corp"}, is_diff : BOOLEAN]

\* rowHasUnresolved, for the one column of the cell
rowHasUnresolved(c) ==
    \/ ~c.ai_result.present
    \/ c.ai_result.fallback_reason # ""
    \/ (IF c.ai_result.verifier_status = "" THEN "SKIPPED" ELSE c.ai_result.verifier_status)
          \in {"FAIL", "PARTIAL"}
    \/ c.ai_result.confidence_score < 55

\* {cell?.effective_value || '-'}
CellText(c) == IF c.effective_value # "" THEN c.effective_value ELSE "-"

\* The badges under the value, in the order of the JSX.
CellBadges(c) ==
    (IF c.review_status # "" THEN {c.review_status} ELSE {})
    \cup (IF c.ai_result.extraction_method # "" THEN {c.ai_result.extraction_method} ELSE {})
    \cup (IF c.ai_result.verifier_status \notin {"", "SKIPPED"}
          THEN {c.ai_result.verifier_status} ELSE {})
    \cup (IF c.ai_result.confidence_score < 55 THEN {"LOW CONF"} ELSE {})
    \cup (IF c.is_diff THEN {"DIFF"} ELSE {})

\* The AI Result box of the review panel: the uncertainty reason line.
PanelReason(c) == c.ai_result.uncertainty_reason

NothingRendered == [text |-> "", badges |-> {}]

GridIdle ==
    gridCell = [pc |-> "idle", cell |-> [ai_result |-> NoAiResult, review_status |-> "",
                                         effective_value |-> "", is_diff |-> FALSE],
                showUnresolvedOnly |-> FALSE, in_table |-> FALSE,
                rendered |-> NothingRendered, panel_reason |-> ""]

InitGrid ==
    gridCell \in [pc : {"loaded"}, cell : TableCells, showUnresolvedOnly : BOOLEAN,
                  in_table : {FALSE}, rendered : {NothingRendered}, panel_reason : {""}]

\* displayRows.map(...): the row is in the table unless the filter drops it
RenderTableCell ==
    /\ gridCell.pc = "loaded"
    /\ gridCell' = [gridCell EXCEPT
          !.pc = "rendered",
          !.in_table = ~gridCell.showUnresolvedOnly \/ rowHasUnresolved(gridCell.cell),
          !.rendered = IF ~gridCell.showUnresolvedOnly \/ rowHasUnresolved(gridCell.cell)
                       THEN [text |-> CellText(gridCell.cell),
                             badges |-> CellBadges(gridCell.cell)]
                       ELSE NothingRendered]
    /\ UNCHANGED oldVars /\ UNCHANGED <<backVars, reviewVars, pollVars, callVars>>

\* onClick of the cell: the review panel shows the selected cell
SelectTableCell ==
    /\ gridCell.pc = "rendered" /\ gridCell.in_table
    /\ gridCell' = [gridCell EXCEPT !.pc = "selected",
                                    !.panel_reason = PanelReason(gridCell.cell)]
    /\ UNCHANGED oldVars /\ UNCHANGED <<backVars, reviewVars, pollVars, callVars>>

NextGrid == RenderTableCell \/ SelectTableCell

-----------------------------------------------------------------------------
(***************************************************************************)
(* Review decisions: the review form and saveReview of App.tsx, and the    *)
(* documented backend behaviour behind it (review_decisions upsert per     *)
(* cell key, table-view resolution of effective_value).  One cell key.     *)
(***************************************************************************)
MaxUpserts == 3

REVIEW_STATUSES == {"CONFIRMED", "REJECTED", "MANUAL_UPDATED", "MISSING_DATA"}

\* JSON null in manual_value
NullValue == "<null>"

ManualInputs == {"", "2015-01-01"}

\* field_extractions row of the cell: absent, or its value
NoExtraction == [present |-> FALSE, value |-> ""]
ExtractionRows == {NoExtraction} \cup [present : {TRUE}, value : {"", "2014-10-01"}]

NoOverlay == [present |-> FALSE, status |-> "", manual_value |-> NullValue]

\* Review Resolution Rule
EffectiveValueAlwaysAi(ai, overlay) == ai.value

EffectiveValue(ai, overlay) ==
    IF overlay.present /\ overlay.status = "MANUAL_UPDATED"
    THEN (IF overlay.manual_value = NullValue THEN "" ELSE overlay.manual_value)
    ELSE ai.value

\* table_view(): one cell of the table
TableViewCell(ai, overlay) ==
    [ai_result |-> ai, review_overlay |-> overlay,
     effective_value |-> EffectiveValue(ai, overlay)]

\* The payload saveReview posts.
ReviewPayload(reviewStatus, manualValue) ==
    [present |-> TRUE, status |-> reviewStatus,
     manual_value |-> IF reviewStatus = "MANUAL_UPDATED" THEN manualValue ELSE NullValue]

\* The form defaults when a cell is selected.
FormStatus(tc) == IF tc.review_overlay.present THEN tc.review_overlay.status ELSE "CONFIRMED"

FormManualValue(tc) ==
    IF tc.review_overlay.manual_value \notin {NullValue, ""}
    THEN tc.review_overlay.manual_value
    ELSE tc.effective_value

ReviewIdle ==
    review = [pc |-> "idle", field_extraction |-> NoExtraction, review_decision |-> NoOverlay,
              cell |-> TableViewCell(NoExtraction, NoOverlay),
              reviewStatus |-> "CONFIRMED", manualValue |-> "", error |-> FALSE, upserts |-> 0]

InitReview ==
    \E ai \in ExtractionRows :
        review = [pc |-> "table", field_extraction |-> ai, review_decision |-> NoOverlay,
                  cell |-> TableViewCell(ai, NoOverlay),
                  reviewStatus |-> "CONFIRMED", manualValue |-> "", error |-> FALSE,
                  upserts |-> 0]

\* Selecting the cell loads the form from the cell of the table.
SelectReviewCell ==
    /\ review.pc = "table"
    /\ review' = [review EXCEPT !.pc = "form",
                                !.reviewStatus = FormStatus(review.cell),
                                !.manualValue = FormManualValue(review.cell)]
    /\ UNCHANGED oldVars /\ UNCHANGED <<backVars, gridVars, pollVars, callVars>>

\* The status select and the manual value input.
EditReviewForm ==
    /\ review.pc = "form"
    /\ \E st \in REVIEW_STATUSES, mv \in ManualInputs \cup {review.manualValue} :
          /\ <<st, mv>> # <<review.reviewStatus, review.manualValue>>
          /\ review' = [review EXCEPT !.reviewStatus = st, !.manualValue = mv]
    /\ UNCHANGED oldVars /\ UNCHANGED <<backVars, gridVars, pollVars, callVars>>

\* saveReview: the upsert succeeds and refreshTable loads the table.
SaveReviewSucceeds ==
    /\ review.pc = "form" /\ review.upserts < MaxUpserts
    /\ review' = [review EXCEPT
          !.review_decision = ReviewPayload(review.reviewStatus, review.manualValue),
          !.cell = TableViewCell(review.field_extraction,
                                 ReviewPayload(review.reviewStatus, review.manualValue)),
          !.error = FALSE,
          !.upserts = @ + 1]
    /\ UNCHANGED oldVars /\ UNCHANGED <<backVars, gridVars, pollVars, callVars>>

\* saveReview: the upsert succeeds, the table-view request of refreshTable
\* fails; the table keeps the cell it had.
SaveReviewRefreshFails ==
    /\ review.pc = "form" /\ review.upserts < MaxUpserts
    /\ review' = [review EXCEPT
          !.review_decision = ReviewPayload(review.reviewStatus, review.manualValue),
          !.error = TRUE,
          !.upserts = @ + 1]
    /\ UNCHANGED oldVars /\ UNCHANGED <<backVars, gridVars, pollVars, callVars>>

\* saveReview: the upsert request fails; nothing is stored.
SaveReviewFails ==
    /\ review.pc = "form" /\ ~review.error
    /\ review' = [review EXCEPT !.error = TRUE]
    /\ UNCHANGED oldVars /\ UNCHANGED <<backVars, gridVars, pollVars, callVars>>

\* The table tab effect or a later refresh loads the table again.
RefreshTable ==
    /\ review.pc = "form"
    /\ review.cell # TableViewCell(review.field_extraction, review.review_decision)
    /\ review' = [review EXCEPT
          !.cell = TableViewCell(review.field_extraction, review.review_decision),
          !.error = FALSE]
    /\ UNCHANGED oldVars /\ UNCHANGED <<backVars, gridVars, pollVars, callVars>>

NextReview ==
    \/ SelectReviewCell
    \/ EditReviewForm
    \/ SaveReviewSucceeds
    \/ SaveReviewRefreshFails
    \/ SaveReviewFails
    \/ RefreshTable

-----------------------------------------------------------------------------
(***************************************************************************)
(* Task polling (App.tsx): the pending list, the polling effect with its   *)
(* interval timer and its closure-local isPolling flag, and the passes     *)
(* over the pending tasks.  Every run of the effect is a new closure       *)
(* (gen); a pass keeps the closure it was started in, and clearInterval    *)
(* of the cleanup does not stop a pass that is awaiting a response.  A     *)
(* project is selected throughout.                                         *)
(***************************************************************************)
NumTasks == 2
MaxTabChanges == 1

TaskIds == 1..NumTasks

TerminalStatuses == {"SUCCEEDED", "FAILED", "CANCELED"}

\* What GET /api/tasks/{task_id} can answer: a status, or 404 for "GONE".
ServerStatuses == {"RUNNING", "GONE"} \cup TerminalStatuses

RECURSIVE ListFrom(_, _)
ListFrom(ids, n) ==
    IF n > NumTasks THEN <<>>
    ELSE (IF n \in ids THEN <<n>> ELSE <<>>) \o ListFrom(ids, n + 1)

\* uniquePendingTaskIds
uniquePendingTaskIds(pendingTaskIds) == ListFrom(pendingTaskIds, 1)

\* removePendingTaskId
removePendingTaskId(pendingTaskIds, taskId) == pendingTaskIds \ {taskId}

\* The effect runs again: cleanup clears the timer, a new closure is made.
NewEffect(p, pendingTaskIds) ==
    [gen |-> p.effect.gen + 1, list |-> uniquePendingTaskIds(pendingTaskIds),
     isPolling |-> FALSE]

\* The pass moves to the next task of its list, or ends and resets the
\* isPolling of its own closure.
AdvanceKeepsPolling(passes, effect, pass) ==
    IF pass.idx < Len(pass.list)
    THEN [passes |-> (passes \ {pass}) \cup {[pass EXCEPT !.idx = @ + 1, !.phase = "getTask"]},
          effect |-> effect]
    ELSE [passes |-> passes \ {pass}, effect |-> effect]

Advance(passes, effect, pass) ==
    IF pass.idx < Len(pass.list)
    THEN [passes |-> (passes \ {pass}) \cup {[pass EXCEPT !.idx = @ + 1, !.phase = "getTask"]},
          effect |-> effect]
    ELSE [passes |-> passes \ {pass},
          effect |-> IF effect.gen = pass.gen THEN [effect EXCEPT !.isPolling = FALSE]
                     ELSE effect]

NoCatch == [task |-> 0, kind |-> ""]

PollIdle ==
    poll = [pc |-> "idle", server |-> [t \in TaskIds |-> "RUNNING"], pendingTaskIds |-> {},
            tasks |-> [t \in TaskIds |-> ""],
            effect |-> [gen |-> 0, list |-> <<>>, isPolling |-> FALSE],
            passes |-> {}, refreshed |-> {}, caught |-> NoCatch, tick |-> "", tabChanges |-> 0]

InitPoll ==
    \E pendingTaskIds \in SUBSET TaskIds \ {{}} :
        poll = [pc |-> "polling", server |-> [t \in TaskIds |-> "RUNNING"],
                pendingTaskIds |-> pendingTaskIds,
                tasks |-> [t \in TaskIds |-> ""],
                effect |-> [gen |-> 0, list |-> uniquePendingTaskIds(pendingTaskIds),
                            isPolling |-> FALSE],
                passes |-> {}, refreshed |-> {}, caught |-> NoCatch, tick |-> "",
                tabChanges |-> 0]

\* The worker finishes a task, or the task stops existing.
TaskEnds(t) ==
    /\ poll.pc = "polling" /\ poll.server[t] = "RUNNING"
    /\ \E st \in TerminalStatuses \cup {"GONE"} :
          poll' = [poll EXCEPT !.server[t] = st]
    /\ UNCHANGED oldVars /\ UNCHANGED <<backVars, gridVars, reviewVars, callVars>>

\* The interval callback with isPolling false: a pass starts.
TimerTickStartsPass ==
    /\ poll.pc = "polling" /\ poll.effect.list # <<>> /\ ~poll.effect.isPolling
    /\ poll' = [poll EXCEPT
          !.effect.isPolling = TRUE,
          !.passes = @ \cup {[gen |-> poll.effect.gen, list |-> poll.effect.list,
                              idx |-> 1, phase |-> "getTask"]},
          !.tick = "started"]
    /\ UNCHANGED oldVars /\ UNCHANGED <<backVars, gridVars, reviewVars, callVars>>

\* The interval callback with isPolling true: if (isPolling) return.
TimerTickSkipped ==
    /\ poll.pc = "polling" /\ poll.effect.list # <<>> /\ poll.effect.isPolling
    /\ poll.tick # "skipped"
    /\ poll' = [poll EXCEPT !.tick = "skipped"]
    /\ UNCHANGED oldVars /\ UNCHANGED <<backVars, gridVars, reviewVars, callVars>>

\* api.getTask answers with a task that is not terminal.
GetTaskRunning(pass) ==
    /\ pass \in poll.passes /\ pass.phase = "getTask"
    /\ poll.server[pass.list[pass.idx]] = "RUNNING"
    /\ poll' = [poll EXCEPT
          !.tasks[pass.list[pass.idx]] = "RUNNING",
          !.passes = Advance(poll.passes, poll.effect, pass).passes,
          !.effect = Advance(poll.passes, poll.effect, pass).effect]
    /\ UNCHANGED oldVars /\ UNCHANGED <<backVars, gridVars, reviewVars, callVars>>

\* api.getTask answers with a terminal task: the task is removed from the
\* pending list (which runs the effect again) and the pass awaits
\* refreshProjectContext.
GetTaskTerminal(pass) ==
    /\ pass \in poll.passes /\ pass.phase = "getTask"
    /\ poll.server[pass.list[pass.idx]] \in TerminalStatuses
    /\ poll' = [poll EXCEPT
          !.tasks[pass.list[pass.idx]] = poll.server[pass.list[pass.idx]],
          !.pendingTaskIds = removePendingTaskId(@, pass.list[pass.idx]),
          !.effect = NewEffect(poll, removePendingTaskId(poll.pendingTaskIds,
                                                         pass.list[pass.idx])),
          !.passes = (@ \ {pass}) \cup {[pass EXCEPT !.phase = "refresh"]}]
    /\ UNCHANGED oldVars /\ UNCHANGED <<backVars, gridVars, reviewVars, callVars>>

\* api.getTask throws "(404)": the catch block removes the task.
GetTaskNotFound(pass) ==
    /\ pass \in poll.passes /\ pass.phase = "getTask"
    /\ poll.server[pass.list[pass.idx]] = "GONE"
    /\ \E eff \in {NewEffect(poll, removePendingTaskId(poll.pendingTaskIds,
                                                       pass.list[pass.idx]))} :
          poll' = [poll EXCEPT
              !.pendingTaskIds = removePendingTaskId(@, pass.list[pass.idx]),
              !.caught = [task |-> pass.list[pass.idx], kind |-> "404"],
              !.passes = Advance(poll.passes, eff, pass).passes,
              !.effect = Advance(poll.passes, eff, pass).effect]
    /\ UNCHANGED oldVars /\ UNCHANGED <<backVars, gridVars, reviewVars, callVars>>

\* api.getTask throws another error: ignored.
GetTaskFails(pass) ==
    /\ pass \in poll.passes /\ pass.phase = "getTask"
    /\ poll' = [poll EXCEPT
          !.caught = [task |-> pass.list[pass.idx], kind |-> "transient"],
          !.passes = Advance(poll.passes, poll.effect, pass).passes,
          !.effect = Advance(poll.passes, poll.effect, pass).effect]
    /\ UNCHANGED oldVars /\ UNCHANGED <<backVars, gridVars, reviewVars, callVars>>

\* refreshProjectContext returns.
RefreshReturns(pass) ==
    /\ pass \in poll.passes /\ pass.phase = "refresh"
    /\ poll' = [poll EXCEPT
          !.refreshed = @ \cup {pass.list[pass.idx]},
          !.passes = Advance(poll.passes, poll.effect, pass).passes,
          !.effect = Advance(poll.passes, poll.effect, pass).effect]
    /\ UNCHANGED oldVars /\ UNCHANGED <<backVars, gridVars, reviewVars, callVars>>

\* setTab: a dependency of the effect changes and the effect runs again.
ChangeTab ==
    /\ poll.pc = "polling" /\ poll.tabChanges < MaxTabChanges
    /\ poll.pendingTaskIds # {}
    /\ poll' = [poll EXCEPT !.effect = NewEffect(poll, poll.pendingTaskIds),
                            !.tabChanges = @ + 1]
    /\ UNCHANGED oldVars /\ UNCHANGED <<backVars, gridVars, reviewVars, callVars>>

PassesOf(p) == p.passes

NextPoll ==
    \/ \E t \in TaskIds : TaskEnds(t)
    \/ TimerTickStartsPass
    \/ TimerTickSkipped
    \/ \E pass \in PassesOf(poll) : GetTaskRunning(pass)
    \/ \E pass \in PassesOf(poll) : GetTaskTerminal(pass)
    \/ \E pass \in PassesOf(poll) : GetTaskNotFound(pass)
    \/ \E pass \in PassesOf(poll) : GetTaskFails(pass)
    \/ \E pass \in PassesOf(poll) : RefreshReturns(pass)
    \/ ChangeTab

\* A request that is awaited is answered; a transient failure does not
\* repeat forever, so the answer with the task is strongly fair.
PollFairness ==
    /\ WF_vars(TimerTickStartsPass)
    /\ WF_vars(\E pass \in PassesOf(poll) : GetTaskRunning(pass) \/ GetTaskFails(pass)
                                             \/ GetTaskNotFound(pass))
    /\ SF_vars(\E pass \in PassesOf(poll) : GetTaskTerminal(pass))
    /\ WF_vars(\E pass \in PassesOf(poll) : RefreshReturns(pass))

-----------------------------------------------------------------------------
(***************************************************************************)
(* Render requests of the PDF citation viewer: the render effect bumps     *)
(* renderTokenRef and arms a 120 ms timer; the timer sends the request;    *)
(* the response or the error is applied behind a token comparison.  The    *)
(* dependencies of the effect (document, page, probe) are one number.      *)
(***************************************************************************)
MaxRenders == 3

RenderDeps == 1..2

NoTimer == [token |-> 0, deps |-> 0]

\* token !== renderTokenRef.current
TokenIsStaleNever(token, current) == FALSE

TokenIsStale(token, current) == token # current

ViewerIdle ==
    viewer = [pc |-> "idle", deps |-> 0, renderToken |-> 0, timer |-> NoTimer,
              requests |-> {}, issued |-> 0, renderedPage |-> 0, loading |-> FALSE,
              error |-> FALSE, dropped |-> 0]

\* After the first run of the render effect.
InitRenderer ==
    \E deps \in RenderDeps :
        viewer = [pc |-> "mounted", deps |-> deps, renderToken |-> 1,
                  timer |-> [token |-> 1, deps |-> deps],
                  requests |-> {}, issued |-> 0, renderedPage |-> 0, loading |-> FALSE,
                  error |-> FALSE, dropped |-> 0]

\* A dependency changes: cleanup clears the timer, the effect runs again.
RenderEffectRuns(deps) ==
    /\ viewer.pc = "mounted" /\ deps # viewer.deps /\ viewer.renderToken < MaxRenders
    /\ viewer' = [viewer EXCEPT !.deps = deps, !.renderToken = @ + 1,
                                !.timer = [token |-> viewer.renderToken + 1, deps |-> deps]]
    /\ UNCHANGED oldVars /\ UNCHANGED <<backVars, gridVars, reviewVars, pollVars, retryVars>>

\* The timer fires: renderPage sets loading, clears the error and posts
\* the request.
RenderRequestIssued ==
    /\ viewer.timer # NoTimer
    /\ viewer' = [viewer EXCEPT !.timer = NoTimer, !.loading = TRUE, !.error = FALSE,
                                !.requests = @ \cup {viewer.timer},
                                !.issued = viewer.timer.token]
    /\ UNCHANGED oldVars /\ UNCHANGED <<backVars, gridVars, reviewVars, pollVars, retryVars>>

\* The response arrives: behind the token comparison, setRenderedPage(data)
\* and setLoading(false).
RenderResponseArrives(request) ==
    /\ request \in viewer.requests
    /\ IF TokenIsStale(request.token, viewer.renderToken)
       THEN viewer' = [viewer EXCEPT !.requests = @ \ {request}, !.dropped = request.token]
       ELSE viewer' = [viewer EXCEPT !.requests = @ \ {request},
                                     !.renderedPage = request.deps, !.loading = FALSE]
    /\ UNCHANGED oldVars /\ UNCHANGED <<backVars, gridVars, reviewVars, pollVars, retryVars>>

\* The request fails: behind the token comparison, setLoading(false),
\* setRenderedPage(null) and setError(...).
RenderRequestFails(request) ==
    /\ request \in viewer.requests
    /\ IF TokenIsStale(request.token, viewer.renderToken)
       THEN viewer' = [viewer EXCEPT !.requests = @ \ {request}, !.dropped = request.token]
       ELSE viewer' = [viewer EXCEPT !.requests = @ \ {request},
                                     !.renderedPage = 0, !.loading = FALSE, !.error = TRUE]
    /\ UNCHANGED oldVars /\ UNCHANGED <<backVars, gridVars, reviewVars, pollVars, retryVars>>

RequestsOf(v) == v.requests

NextRenderer ==
    \/ \E deps \in RenderDeps : RenderEffectRuns(deps)
    \/ RenderRequestIssued
    \/ \E request \in RequestsOf(viewer) : RenderResponseArrives(request)
    \/ \E request \in RequestsOf(viewer) : RenderRequestFails(request)

-----------------------------------------------------------------------------
(***************************************************************************)
(* withRetry (App.tsx): the retry loop around one operation.  An error is  *)
(* its status, its code and the words of its message; 0 is an absent       *)
(* status or code.  retries is a natural number.                           *)
(***************************************************************************)
MaxRetries == 3

RateLimitStatus == 429

OperationErrors ==
    {[status |-> RateLimitStatus, code |-> 0, message |-> <<>>],
     [status |-> 0, code |-> RateLimitStatus, message |-> <<>>],
     [status |-> 0, code |-> 0, message |-> <<"got", "429", "Too", "Many", "Requests">>],
     [status |-> 0, code |-> 0, message |-> <<"RESOURCE_EXHAUSTED">>],
     [status |-> 0, code |-> 0, message |-> <<"exceeded", "quota">>],
     [status |-> 500, code |-> 0, message |-> <<"Internal", "error">>],
     [status |-> 0, code |-> 0, message |-> <<"Failed", "to", "fetch">>]}

NoError == [status |-> 0, code |-> 0, message |-> <<>>]

MessageIncludes(message, word) == \E i \in 1..Len(message) : message[i] = word

\* isRateLimit
isRateLimit(error) ==
    \/ error.status = RateLimitStatus
    \/ error.code = RateLimitStatus
    \/ MessageIncludes(error.message, "429")
    \/ MessageIncludes(error.message, "RESOURCE_EXHAUSTED")
    \/ MessageIncludes(error.message, "quota")

\* if (isRateLimit && currentTry <= retries)
MayRetryOnAnyError(rateLimited, currentTry, retriesGiven) == currentTry <= retriesGiven

MayRetry(rateLimited, currentTry, retriesGiven) == rateLimited /\ currentTry <= retriesGiven

RetryIdle ==
    retryCall = [pc |-> "idle", retries |-> 0, currentTry |-> 0, invocations |-> 0,
                 error |-> NoError, thrown |-> NoError, event |-> ""]

\* withRetry(operation, retries) has entered the loop and called operation.
InitRetry ==
    \E retriesGiven \in 0..MaxRetries :
        retryCall = [pc |-> "calling", retries |-> retriesGiven, currentTry |-> 0,
                     invocations |-> 1, error |-> NoError, thrown |-> NoError, event |-> ""]

\* return await operation()
OperationSucceeds ==
    /\ retryCall.pc = "calling"
    /\ retryCall' = [retryCall EXCEPT !.pc = "returned"]
    /\ UNCHANGED oldVars /\ UNCHANGED <<backVars, gridVars, reviewVars, pollVars, viewerVars>>

\* The catch block: wait and continue, or throw.
OperationFails(error) ==
    /\ retryCall.pc = "calling"
    /\ IF MayRetry(isRateLimit(error), retryCall.currentTry + 1, retryCall.retries)
       THEN retryCall' = [retryCall EXCEPT !.pc = "waiting", !.currentTry = @ + 1,
                                           !.error = error,
                                           !.event = "gemini_rate_limit_retry"]
       ELSE retryCall' = [retryCall EXCEPT
                !.pc = "thrown", !.currentTry = @ + 1, !.error = error, !.thrown = error,
                !.event = IF isRateLimit(error) /\ retryCall.currentTry + 1 > retryCall.retries
                          THEN "gemini_rate_limit_exhausted" ELSE @]
    /\ UNCHANGED oldVars /\ UNCHANGED <<backVars, gridVars, reviewVars, pollVars, viewerVars>>

\* await wait(delay); continue: the operation is called again.
WaitElapses ==
    /\ retryCall.pc = "waiting"
    /\ retryCall' = [retryCall EXCEPT !.pc = "calling", !.invocations = @ + 1]
    /\ UNCHANGED oldVars /\ UNCHANGED <<backVars, gridVars, reviewVars, pollVars, viewerVars>>

NextRetry ==
    \/ OperationSucceeds
    \/ \E error \in OperationErrors : OperationFails(error)
    \/ WaitElapses

\* The operation settles and the backoff timer fires.
RetryFairness == WF_vars(NextRetry)

CallIdle == RetryIdle /\ ViewerIdle

-----------------------------------------------------------------------------
(***************************************************************************)
(* Specifications                                                          *)
(***************************************************************************)
RunIdle ==
    /\ mode = "hybrid"
    /\ runStatus = "QUEUED"
    /\ cancelRequested = FALSE
    /\ cellState = [c \in Cells |-> "PENDING"]
    /\ inflight = [c \in Cells |-> "none"]
    /\ verifier = [c \in Cells |-> "none"]
    /\ retries = [c \in Cells |-> 0]
    /\ persisted = [c \in Cells |-> NoRow]
    /\ notAttempted = [c \in Cells |-> FALSE]
    /\ discarded = [c \in Cells |-> FALSE]
    /\ extractorResponse = [c \in Cells |-> "none"]
    /\ hardFailure = FALSE

BackIdle == AssemblerIdle /\ RankerIdle
FrontIdle == GridIdle /\ ReviewIdle /\ PollIdle /\ CallIdle
ExtIdle == CellIdle /\ CacheIdle /\ ResolverIdle /\ BackIdle /\ FrontIdle

Init == InitRun /\ FuseIdle /\ AreaIdle /\ GateIdle /\ ExtIdle
Next == NextRun
Spec == Init /\ [][Next]_vars

\* Every external call returns or times out, workers keep taking cells, and
\* the run is resolved once its cells are: the cancel request alone is left
\* to the user.
Fairness ==
    /\ WF_vars(StartRun)
    /\ \A c \in Cells : WF_vars(CellStep(c))
    /\ WF_vars(CancelBetweenCells \/ \E c \in Cells : CancelAtRetryBoundary(c))
    /\ WF_vars(FinishRun)
FairSpec == Spec /\ Fairness

InitFuser == RunIdle /\ InitFuse /\ AreaIdle /\ GateIdle /\ ExtIdle
NextFuser == Fuse
SpecFuser == InitFuser /\ [][NextFuser]_vars

InitAreaCheck == RunIdle /\ FuseIdle /\ InitArea /\ GateIdle /\ ExtIdle
NextArea == CheckArea
SpecArea == InitAreaCheck /\ [][NextArea]_vars

InitViewer == RunIdle /\ FuseIdle /\ AreaIdle /\ InitGate /\ ExtIdle
NextViewer == NextGate
SpecGate == InitViewer /\ [][NextViewer]_vars

BaseIdle == RunIdle /\ FuseIdle /\ AreaIdle /\ GateIdle

InitCellRun == BaseIdle /\ InitCell /\ CacheIdle /\ ResolverIdle /\ BackIdle /\ FrontIdle
SpecCell == InitCellRun /\ [][NextCell]_vars

InitCacheRun == BaseIdle /\ CellIdle /\ InitCache /\ ResolverIdle /\ BackIdle /\ FrontIdle
SpecCache == InitCacheRun /\ [][NextCache]_vars

OldIdle == BaseIdle /\ CellIdle /\ CacheIdle /\ ResolverIdle

InitAssemblerRun == OldIdle /\ InitAssembler /\ RankerIdle /\ FrontIdle
SpecSegments == InitAssemblerRun /\ [][NextAssembler]_vars

InitRankerRun == OldIdle /\ AssemblerIdle /\ InitRanker /\ FrontIdle
SpecRanker == InitRankerRun /\ [][NextRanker]_vars

InitGridRun == OldIdle /\ BackIdle /\ InitGrid /\ ReviewIdle /\ PollIdle /\ CallIdle
SpecGrid == InitGridRun /\ [][NextGrid]_vars

InitReviewRun == OldIdle /\ BackIdle /\ GridIdle /\ InitReview /\ PollIdle /\ CallIdle
SpecReview == InitReviewRun /\ [][NextReview]_vars

InitPollRun == OldIdle /\ BackIdle /\ GridIdle /\ ReviewIdle /\ InitPoll /\ CallIdle
SpecPoll == InitPollRun /\ [][NextPoll]_vars
FairSpecPoll == SpecPoll /\ PollFairness

InitRendererRun == OldIdle /\ BackIdle /\ GridIdle /\ ReviewIdle /\ PollIdle /\ RetryIdle /\ InitRenderer
SpecRenderer == InitRendererRun /\ [][NextRenderer]_vars

InitRetryRun == OldIdle /\ BackIdle /\ GridIdle /\ ReviewIdle /\ PollIdle /\ InitRetry /\ ViewerIdle
SpecRetry == InitRetryRun /\ [][NextRetry]_vars
FairSpecRetry == SpecRetry /\ RetryFairness

InitResolverRun == BaseIdle /\ CellIdle /\ CacheIdle /\ InitResolver /\ BackIdle /\ FrontIdle
NextResolver == Resolve
SpecResolver == InitResolverRun /\ [][NextResolver]_vars


-----------------------------------------------------------------------------
(***************************************************************************)
(* Properties of the extraction run (Spec, FairSpec)                       *)
(***************************************************************************)

\* C1: a verifier FAIL on the first pass leads to exactly one retry (the only
\* state a first-pass FAIL moves to is RETRYING, with the retry counted); a
\* FAIL on the retry is accepted and persisted with its FAIL status, no
\* further retry starts, and no cell ever counts more than one retry.
C1_RetryAtMostOnce ==
    /\ [](\A c \in Cells : retries[c] <= 1)
    /\ [][\A c \in Cells :
            /\ (cellState[c] = "VERIFIED" /\ verifier[c] = "FAIL"
                    /\ cellState'[c] # cellState[c])
                  => (cellState'[c] = "RETRYING" /\ retries[c] = 0 /\ retries'[c] = 1)
            /\ (cellState[c] = "RE_VERIFIED" /\ verifier[c] = "FAIL"
                    /\ cellState'[c] # cellState[c])
                  => (/\ cellState'[c] = "ACCEPTED"
                      /\ persisted'[c] = Row("ACCEPTED", "FAIL")
                      /\ retries'[c] = retries[c])
            /\ (cellState'[c] = "RETRYING" /\ cellState[c] # "RETRYING")
                  => (cellState[c] = "VERIFIED" /\ verifier[c] = "FAIL")
       ]_vars

\* A retried cell whose second verdict was FAIL too, accepted and persisted.
C1_SecondFailAccepted ==
    \E c \in Cells :
        /\ cellState[c] = "ACCEPTED" /\ retries[c] = 1
        /\ persisted[c] = Row("ACCEPTED", "FAIL")

C8_CancelPreservesAndDiscards ==
    /\ [][(runStatus = "CANCELED" \/ runStatus' = "CANCELED")
             => (persisted' = persisted /\ cellState' = cellState)]_vars
    /\ [](runStatus = "CANCELED" =>
            \A c \in Cells :
                /\ notAttempted[c] <=> ~IsTerminal(c)
                /\ cellState[c] = "ACCEPTED" => persisted[c].outcome = "ACCEPTED"
                /\ (inflight[c] # "none" \/ discarded[c])
                      => (persisted[c] = NoRow /\ notAttempted[c]))
    /\ [](runStatus # "CANCELED" =>
            \A c \in Cells : ~notAttempted[c] /\ ~discarded[c])

\* A cancelled run with a dropped late response and an unattempted cell.
C8_CancelledWithDiscard ==
    /\ runStatus = "CANCELED"
    /\ \E c \in Cells : discarded[c] /\ notAttempted[c] /\ persisted[c] = NoRow
    /\ \E d \in Cells : notAttempted[d] /\ cellState[d] = "PENDING" /\ ~discarded[d]

C15_RetryPassPersisted ==
    /\ [][\A c \in Cells :
            (cellState[c] = "RE_VERIFIED" /\ verifier[c] = "PASS"
                 /\ cellState'[c] # cellState[c]) =>
                /\ cellState'[c] = "ACCEPTED"
                /\ persisted'[c].verifier_status = "PASS"
                /\ persisted'[c].uncertainty_reason = "empty"
                /\ retries[c] = 1 /\ retries'[c] = 1
       ]_vars
    /\ [][\A c \in Cells :
            (cellState[c] = "VERIFIED" /\ cellState'[c] = "RETRYING")
                => (verifier[c] = "FAIL" /\ retries'[c] = 1)
       ]_vars
    /\ [](\A c \in Cells :
            /\ cellState[c] \in {"RETRYING", "RE_EXTRACTED", "RE_VERIFIED"} => retries[c] = 1
            /\ (cellState[c] = "ACCEPTED" /\ retries[c] = 1 /\ verifier[c] = "PASS")
                  => persisted[c] = [outcome |-> "ACCEPTED", verifier_status |-> "PASS",
                                     uncertainty_reason |-> "empty"])

\* A cell retried once and accepted with the PASS of its retry.
C15_FailThenPassAccepted ==
    \E c \in Cells :
        /\ cellState[c] = "ACCEPTED" /\ retries[c] = 1
        /\ persisted[c].verifier_status = "PASS"
        /\ persisted[c].uncertainty_reason = "empty"

-----------------------------------------------------------------------------
(***************************************************************************)
(* Properties of one cell's pipeline (SpecCell)                            *)
(***************************************************************************)

\* C16: the self-consistency re-extraction runs at most once per cell whether
\* or not the cell was retried, never for a profile other than high, and a
\* persisted high-profile cell has run it exactly once; without the check
\* self_consistent stays false.
C16_SelfCheckAtMostOnce ==
    /\ cell.self_checks <= 1
    /\ cell.quality_profile # "high" => (cell.self_checks = 0 /\ ~cell.self_consistent)
    /\ (cell.pc = "persisted" /\ cell.quality_profile = "high") => cell.self_checks = 1

\* A retried high-profile cell, persisted after a single self-consistency
\* re-extraction.
C16_RetriedHighCheckedOnce ==
    /\ cell.pc = "persisted" /\ cell.quality_profile = "high"
    /\ cell.pass = 2 /\ cell.self_checks = 1

-----------------------------------------------------------------------------
(***************************************************************************)
(* Properties of the embedding cache (SpecCache)                           *)
(***************************************************************************)

\* C13: whatever the interleaving of the cells that compute and upsert the
\* embedding of the same block, the table never holds two rows for one key,
\* every row holds the vector a single sequential upsert would leave, and
\* once all calls have returned with the service up every block has exactly
\* one row.
C13_OneRowPerKey ==
    /\ \A b \in Blocks :
          /\ Cardinality({r \in document_block_embeddings : r.block_id = b}) <= 1
          /\ \A r \in document_block_embeddings :
                r.block_id = b => r.embedding_json = Embed(b)
    /\ ((\A w \in Callers : embedCall[w].pc = "returned") /\ embeddingServiceUp) =>
          \A b \in Blocks :
              Cardinality({r \in document_block_embeddings : r.block_id = b}) = 1

\* Two cells both computed the embedding of the same missing block and both
\* upserted it; the table holds one row for it.
C13_RacedUpsert ==
    \E b \in Blocks :
        /\ \A w \in Callers :
              embedCall[w].pc = "returned" /\ b \in embedCall[w].new_embeddings
        /\ Cardinality({r \in document_block_embeddings : r.block_id = b}) = 1

-----------------------------------------------------------------------------
(***************************************************************************)
(* Properties of the citation resolver (SpecResolver)                      *)
(***************************************************************************)
Resolved == resolveOut # Unresolved

\* The list pickPrimaryCitation chose from: the cell's own citations, else
\* those of the block picked for the cell, else none.
CandidatesOf(in) ==
    IF in.cell.citations # <<>> THEN in.cell.citations
    ELSE IF pickBestBlockForCell(in.blocks, in.cell) # 0
         THEN in.blocks[pickBestBlockForCell(in.blocks, in.cell)].citations
    ELSE <<>>

ViablePositions(citations) == {i \in 1..Len(citations) : Viable(citations[i])}

\* The positions pickPrimaryCitation scores: the viable ones, or all of
\* them when none is viable.
ScoredPositions(citations) ==
    IF ViablePositions(citations) # {} THEN ViablePositions(citations)
    ELSE 1..Len(citations)

\* C18: the resolver is deterministic: the citation list (in its order) and
\* the cell content fix the result, ties for the highest score included:
\* the result is the earliest of the top-scoring citations it scores (the
\* earliest of them outright when there is no cell).
C18_EarliestTopScoring ==
    (Resolved /\ resolveOut.from # "null") =>
        LET candidates == CandidatesOf(resolveIn)
            scored == ScoredPositions(candidates)
            score(i) == scoreCitationAgainstCell(candidates[i], resolveIn.cell)
            chosen == resolveOut.citation
        IN /\ chosen \in scored
           /\ \A j \in scored :
                 /\ score(j) <= score(chosen)
                 /\ (score(j) = score(chosen) => chosen <= j)

\* C18 witness: two citations of the cell tie for the highest score, and
\* the earlier one is returned.
C18_TieBrokenByOrder ==
    /\ Resolved /\ resolveOut.from = "cell" /\ resolveOut.citation = 1
    /\ Len(resolveIn.cell.citations) = 2
    /\ resolveIn.cell.citations[1] # resolveIn.cell.citations[2]
    /\ Viable(resolveIn.cell.citations[2])
    /\ scoreCitationAgainstCell(resolveIn.cell.citations[1], resolveIn.cell) > 0
    /\ scoreCitationAgainstCell(resolveIn.cell.citations[1], resolveIn.cell)
         = scoreCitationAgainstCell(resolveIn.cell.citations[2], resolveIn.cell)

\* C19 as stated: the resolver returns null whenever no candidate has a
\* snippet, selector, page or bbox, and never returns a non-viable citation.
C19_NullUnlessViable ==
    Resolved =>
        /\ (ViablePositions(CandidatesOf(resolveIn)) = {} => resolveOut = NoResolution)
        /\ (resolveOut.from # "null" => Viable(ResolvedCitation(resolveIn, resolveOut)))

\* C19 amended: the resolver returns null exactly when the candidate list
\* is empty; it returns a viable citation whenever some candidate is
\* viable, and one of the candidates when none is.
C19_NullOnlyWithoutCandidates ==
    Resolved =>
        LET candidates == CandidatesOf(resolveIn)
        IN /\ (resolveOut = NoResolution <=> candidates = <<>>)
           /\ (candidates # <<>> =>
                 /\ resolveOut.citation \in 1..Len(candidates)
                 /\ ResolvedCitation(resolveIn, resolveOut) = candidates[resolveOut.citation]
                 /\ (ViablePositions(candidates) # {}
                        => Viable(ResolvedCitation(resolveIn, resolveOut))))

\* C19 witness: every citation of the cell lacks snippet, selector, page
\* and bbox, and one of them is returned.
C19_NonViableReturned ==
    /\ Resolved /\ resolveOut.from = "cell"
    /\ ViablePositions(resolveIn.cell.citations) = {}
    /\ ~Viable(ResolvedCitation(resolveIn, resolveOut))

\* The blocks whose text spells the date out.
DateBlocks(blocks) ==
    {b \in 1..Len(blocks) :
        Includes(blocks[b].text, <<"October", " ", "1", ",", " ", "2014">>)}

\* A probe of the resolver that is an expanded date variant of the value
\* and occurs in the block's normalized text.
ViaExpandedProbe(block, c) ==
    \E k \in 1..Len(ProbesOf(c)) :
        /\ \E e \in 1..Len(expandIsoDateProbes(c.value)) :
              ProbesOf(c)[k] = expandIsoDateProbes(c.value)[e]
        /\ ProbeMatch(block, ProbesOf(c)[k]) = "substring"

\* C20: for a cell whose value is "2014-10-01" and a document in which
\* exactly one block contains "October 1, 2014" (and none the raw value),
\* the resolver selects that block's citation, through an expanded date
\* probe rather than a raw substring match.
C20_DateBlockViaExpandedProbe ==
    (/\ Resolved
     /\ resolveIn.cell.present
     /\ resolveIn.cell.value = IsoDate
     /\ resolveIn.cell.quote = <<>>
     /\ resolveIn.cell.citations = <<>>
     /\ Cardinality(DateBlocks(resolveIn.blocks)) = 1
     /\ \A b \in DateBlocks(resolveIn.blocks) : resolveIn.blocks[b].citations # <<>>)
    => /\ resolveOut.from = "block"
       /\ resolveOut.block \in DateBlocks(resolveIn.blocks)
       /\ ViaExpandedProbe(resolveIn.blocks[resolveOut.block], resolveIn.cell)

\* The fields whose answers are conventionally found early in a document.
EarlyDocumentFields == {"title", "parties_entities", "effective_date"}

\* C21: when the two citations of the cell score less than 0.4 apart, the
\* field is an early-document field, and the better-scoring citation is on
\* page 7 while the other is on page 2, the page-2 citation is selected.
C21_EarlyPageWinsCloseCall ==
    (/\ Resolved
     /\ resolveIn.field \in EarlyDocumentFields
     /\ Len(resolveIn.cell.citations) = 2
     /\ \E late \in 1..2 : \E early \in 1..2 :
           /\ resolveIn.cell.citations[late].page = 7
           /\ resolveIn.cell.citations[early].page = 2
           /\ scoreCitationAgainstCell(resolveIn.cell.citations[late], resolveIn.cell)
                > scoreCitationAgainstCell(resolveIn.cell.citations[early], resolveIn.cell)
           /\ scoreCitationAgainstCell(resolveIn.cell.citations[late], resolveIn.cell)
                - scoreCitationAgainstCell(resolveIn.cell.citations[early], resolveIn.cell)
                < 480)
    => /\ resolveOut.from = "cell"
       /\ ResolvedCitation(resolveIn, resolveOut).page = 2

-----------------------------------------------------------------------------
(***************************************************************************)
(* Properties of the segment assembler (SpecSegments)                      *)
(***************************************************************************)
SegmentBlockSet(seg) == {seg.block_ids[i] : i \in 1..Len(seg.block_ids)}

\* Every unit of the text belongs to a block of the segment, and both rows
\* of each of its tables are in the text, next to each other.
TablesWhole(types, seg) ==
    /\ \A i \in 1..Len(seg.text) : seg.text[i].block \in SegmentBlockSet(seg)
    /\ \A b \in SegmentBlockSet(seg) :
          types[b] = "table" =>
              \E i \in 1..(Len(seg.text) - 1) :
                  seg.text[i] = Unit(b, 1) /\ seg.text[i + 1] = Unit(b, 2)

C23_NoBlockInTwoSegments ==
    /\ \A i, j \in 1..Len(rse.segments) :
          i # j => SegmentBlockSet(rse.segments[i]) \cap SegmentBlockSet(rse.segments[j]) = {}
    /\ \A i \in 1..Len(rse.segments) :
          \A k \in 1..(Len(rse.segments[i].block_ids) - 1) :
              rse.segments[i].block_ids[k] < rse.segments[i].block_ids[k + 1]

\* C23 amended: windows that cover the same span are merged into a single
\* segment, so no two segments of the output have the same block span
\* (segments with different spans may share blocks), and the blocks of
\* each segment are sorted by sequence_index.
C23_NoSpanInTwoSegments ==
    /\ \A i, j \in 1..Len(rse.segments) :
          i # j => rse.segments[i].block_ids # rse.segments[j].block_ids
    /\ \A i \in 1..Len(rse.segments) :
          \A k \in 1..(Len(rse.segments[i].block_ids) - 1) :
              rse.segments[i].block_ids[k] < rse.segments[i].block_ids[k + 1]

\* C23 witness: two retrieved blocks gave the same span and one segment,
\* and in another call two kept segments share a block.
C23_OverlappingSegmentsKept ==
    /\ rse.pc = "done" /\ Len(rse.segments) = 2
    /\ SegmentBlockSet(rse.segments[1]) \cap SegmentBlockSet(rse.segments[2]) # {}
    /\ Len(rse.segments[1].block_ids) > 1

-----------------------------------------------------------------------------
-----------------------------------------------------------------------------
(***************************************************************************)
(* Properties of the review table (SpecGrid)                               *)
(***************************************************************************)
ReasonCodes == {"NOT_FOUND", "AMBIGUOUS", "PARSER_ERROR", "MODEL_ERROR", "no supporting clause"}

\* C25: a table cell in the table renders a value, or an unresolved state
\* together with its reason code, in the cell or (once selected) in the
\* review panel; never the placeholder alone.
C25_ValueOrReasonRendered ==
    (gridCell.in_table /\ gridCell.rendered.text = "-") =>
        \/ gridCell.rendered.badges \cap ReasonCodes # {}
        \/ gridCell.pc = "selected" /\ gridCell.panel_reason \in ReasonCodes

-----------------------------------------------------------------------------
(***************************************************************************)
(* Properties of the review decisions (SpecReview)                         *)
(***************************************************************************)
ResolutionRuleHolds(tc) ==
    tc.effective_value =
        IF tc.review_overlay.present /\ tc.review_overlay.status = "MANUAL_UPDATED"
        THEN tc.review_overlay.manual_value
        ELSE tc.ai_result.value

ManualValueOnlyWhenUpdated(overlay) ==
    overlay.manual_value # NullValue => overlay.status = "MANUAL_UPDATED"

\* C26: review upserts never change the AI extraction row; the effective
\* value of the stored cell and of the cell in the table is manual_value
\* when the latest review status is MANUAL_UPDATED and ai_result.value
\* otherwise; a manual_value is stored only with status MANUAL_UPDATED.
C26_ReviewLeavesAiResult ==
    /\ [][review'.field_extraction = review.field_extraction]_vars
    /\ [](review.pc # "idle" =>
            /\ review.cell.ai_result = review.field_extraction
            /\ ResolutionRuleHolds(review.cell)
            /\ ResolutionRuleHolds(TableViewCell(review.field_extraction, review.review_decision))
            /\ ManualValueOnlyWhenUpdated(review.review_decision)
            /\ ManualValueOnlyWhenUpdated(review.cell.review_overlay))

\* A manual update replaced by a later confirmation: the effective value is
\* the AI value again, after three upserts.
C26_ManualThenConfirmed ==
    /\ review.upserts = MaxUpserts
    /\ review.field_extraction.present /\ review.field_extraction.value # ""
    /\ review.review_decision.status = "CONFIRMED"
    /\ review.cell.review_overlay.status = "MANUAL_UPDATED"
    /\ review.cell.effective_value = "2015-01-01"
    /\ review.manualValue = "2015-01-01"

-----------------------------------------------------------------------------
(***************************************************************************)
(* Properties of the task polling (SpecPoll, FairSpecPoll)                 *)
(***************************************************************************)
RemovedBy(t) == t \in poll.pendingTaskIds /\ t \notin poll'.pendingTaskIds

C29_AtMostOnePass == Cardinality(poll.passes) <= 1

-----------------------------------------------------------------------------
(***************************************************************************)
(* Properties of the render requests of the PDF viewer (SpecRenderer)        *)
(***************************************************************************)
ViewerState(v) == <<v.renderedPage, v.loading, v.error>>

Answered(request) == request \in viewer.requests /\ request \notin viewer'.requests

\* C28: the answer to a render request (response or error) changes
\* renderedPage, loading or error only if the request is the most recently
\* issued one and no newer render was asked for since; the answer to an
\* older request leaves all three unchanged.
C28_OnlyLatestRenderApplied ==
    [][\A request \in viewer.requests :
          Answered(request) =>
              /\ ViewerState(viewer') # ViewerState(viewer) =>
                    /\ request.token = viewer.issued
                    /\ request.token = viewer.renderToken
              /\ (request.token # viewer.issued \/ request.token # viewer.renderToken) =>
                    ViewerState(viewer') = ViewerState(viewer)]_vars

\* An older answer was dropped while the newer request was in flight, and
\* the newer answer is what the state holds.
C28_StaleAnswerDropped ==
    /\ viewer.dropped = 1 /\ viewer.issued = 2 /\ viewer.renderToken = 2
    /\ viewer.requests = {} /\ viewer.renderedPage = viewer.deps /\ ~viewer.loading

-----------------------------------------------------------------------------
(***************************************************************************)
(* Properties of withRetry (FairSpecRetry)                                 *)
(***************************************************************************)
RetrySettled == retryCall.pc \in {"returned", "thrown"}

\* C30: withRetry calls the operation at most retries + 1 times and
\* terminates; it calls again only after a rate-limit error, throws another
\* error in the step that caught it, throws the rate-limit error once the
\* retries are used up, and returns at the first success.
C30_WithRetryBounded ==
    /\ [](retryCall.pc # "idle" =>
            /\ retryCall.invocations <= retryCall.retries + 1
            /\ retryCall.pc = "waiting" => isRateLimit(retryCall.error)
            /\ (retryCall.pc = "thrown" /\ isRateLimit(retryCall.thrown)) =>
                  (retryCall.invocations = retryCall.retries + 1
                   /\ retryCall.currentTry = retryCall.retries + 1))
    /\ [][/\ retryCall'.invocations > retryCall.invocations =>
                (retryCall.pc = "waiting" /\ isRateLimit(retryCall.error))
          /\ (retryCall'.currentTry > retryCall.currentTry
              /\ ~isRateLimit(retryCall'.error)) =>
                (retryCall'.pc = "thrown" /\ retryCall'.thrown = retryCall'.error
                 /\ retryCall'.invocations = retryCall.invocations)
          /\ retryCall'.pc = "returned" =>
                (retryCall.pc = "calling"
                 /\ retryCall'.invocations = retryCall.invocations)]_vars
    /\ <>RetrySettled

\* The rate-limit error is thrown after the last of retries + 1 calls.
C30_RetriesExhausted ==
    /\ retryCall.pc = "thrown" /\ retryCall.retries = MaxRetries
    /\ retryCall.invocations = MaxRetries + 1
    /\ MessageIncludes(retryCall.thrown.message, "quota")
    /\ retryCall.event = "gemini_rate_limit_exhausted"

-----------------------------------------------------------------------------
(***************************************************************************)
(* Properties of the confidence fuser (SpecFuser)                          *)
(***************************************************************************)

\* C4: for base_confidence in [0, 1], any retrieval_score of the sampled
\* range, any verifier status and either self_consistent value, the fused
\* confidence lies in [0.05, 0.98] (500..9800 ten-thousandths).
C4_FinalConfidenceInRange ==
    fuseOut # -1 =>
        /\ fuseIn.base_confidence \in 0..100
        /\ fuseIn.verifier_status \in {"PASS", "PARTIAL", "FAIL"}
        /\ 500 <= fuseOut /\ fuseOut <= 9800

\* The raw score exceeded 0.98 and the clamp brought it down.
C4_ClampedAtTop ==
    /\ fuseOut = 9800
    /\ RawScore(fuseIn) > 9800
    /\ fuseIn.verifier_status = "PASS" /\ fuseIn.self_consistent

-----------------------------------------------------------------------------
(***************************************************************************)
(* Properties of the anchor geometry (SpecArea)                            *)
(***************************************************************************)

\* C6: hasPlausibleArea rejects every bbox of four finite numbers that, after
\* min/max normalisation, is degenerate (x_max <= x_min or y_max <= y_min),
\* or lies more than 1 unit outside the page on some side, or whose area is
\* below 0.0001 or above 0.35 of the page area; [10,10,12,12] on a 612x792
\* page is rejected.
C6_ImplausibleBboxRejected ==
    /\ (areaOut # "pending" /\ Len(areaIn.bbox) = 4
            /\ \A i \in 1..4 : areaIn.bbox[i] # NotANumber) =>
          LET b == areaIn.bbox
              w == areaIn.page.width
              h == areaIn.page.height
              xmin == IF b[1] <= b[3] THEN b[1] ELSE b[3]
              xmax == IF b[1] <= b[3] THEN b[3] ELSE b[1]
              ymin == IF b[2] <= b[4] THEN b[2] ELSE b[4]
              ymax == IF b[2] <= b[4] THEN b[4] ELSE b[2]
              area == (xmax - xmin) * (ymax - ymin)
              degenerate == xmax <= xmin \/ ymax <= ymin
              outside == xmin < -1 \/ ymin < -1 \/ xmax > w + 1 \/ ymax > h + 1
              \* area / (w*h) < 1/10000, and area / (w*h) > 35/100
              tooSmall == w * h > 0 /\ area <= (w * h - 1) \div 10000
              tooLarge == w * h > 0 /\ area * 100 > 35 * w * h
          IN (degenerate \/ outside \/ tooSmall \/ tooLarge) => areaOut = "implausible"
    /\ (areaOut # "pending" /\ areaIn.bbox = <<10, 10, 12, 12>>
            /\ areaIn.page = [width |-> 612, height |-> 792])
          => areaOut = "implausible"

\* The speck of the scenario, checked and rejected.
C6_SpeckRejected ==
    /\ areaIn.bbox = <<10, 10, 12, 12>>
    /\ areaIn.page = [width |-> 612, height |-> 792]
    /\ areaOut = "implausible"

-----------------------------------------------------------------------------
(***************************************************************************)
(* Properties of the PDF citation viewer (SpecGate)                        *)
(***************************************************************************)

\* C5: with match_confidence below 0.55 - as sent by the server, or as the
\* viewer derives it when the field is absent - canDrawBBox is false and no
\* highlight box is in the rendered page, whatever the bboxes and page size.
C5_LowConfidenceNeverDraws ==
    /\ (renderedPage.present /\ renderedPage.match_confidence # UndefinedConfidence
            /\ renderedPage.match_confidence < 55)
          => (~canDrawBBox /\ ~overlayDrawn /\ ~OverlayRendered
                /\ lastEvent.event # "citation_scroll_applied")
    /\ matchConfidence < 55 => (~canDrawBBox /\ ~overlayDrawn)

\* Confidence 0.54 with a server-matched, plausible bbox: only the
\* confidence check stands between the bbox and the overlay.
C5_OnlyConfidenceBlocks ==
    /\ renderedPage.present /\ renderedPage.match_confidence = 54
    /\ normalizedRenderedBbox # NoBbox /\ bboxPlausible /\ bboxSource # "none"
    /\ displayedWidth > 0 /\ displayedHeight > 0
    /\ ~loading /\ ~overlayDrawn

=============================================================================
